---- MODULE Spec2Model ----
(***************************************************************************)
(* Model of the libpisp Back End configuration generator: the tiling       *)
(* stage graph (src/libpisp/backend/tiling), BackEnd::Prepare and the      *)
(* steps it runs (backend_prepare.cpp), the JSON catalogue dump/load       *)
(* (backend_debug.cpp) and the Front End partial-update merge              *)
(* (frontend.cpp).                                                         *)
(***************************************************************************)
EXTENDS Integers, Sequences, FiniteSets, TLC

\* ------------------------------------------------------------------------
\* Program constants
\* ------------------------------------------------------------------------
PISP_BACK_END_INPUT_ALIGN == 4
PISP_BACK_END_OUTPUT_MIN_ALIGN == 16
PISP_BACK_END_OUTPUT_MAX_ALIGN == 64
PISP_BACK_END_MIN_TILE_WIDTH == 16
PISP_BACK_END_MIN_TILE_HEIGHT == 16
PISP_BACK_END_NUM_OUTPUTS == 2
PISP_BACK_END_NUM_TILES == 64
MaxStripeHeight == 3072
ScalePrecision == 12
UnityScale == 2 ^ ScalePrecision
BackEndMaxTileWidth == 640
\* Context and alignment of the pipeline ahead of the split, and the
\* context the six-tap resampler needs to the left and to the right.
PipelineContextX == 16
PipelineContextY == 16
PipelineAlignX == 2
PipelineAlignY == 2
ResampleStartContext == 2
ResampleEndContext == 3
\* uint16_t fields of pisp_tile
U16 == 65536
abs(x) == IF x < 0 THEN -x ELSE x

Branches == 0 .. (PISP_BACK_END_NUM_OUTPUTS - 1)
Dirs == {"x", "y"}

Max(a, b) == IF a >= b THEN a ELSE b
Min(a, b) == IF a <= b THEN a ELSE b
\* C++ integer division truncates toward zero, and % takes the dividend's sign
CDiv(a, b) == IF a >= 0 THEN a \div b ELSE -((-a) \div b)
CMod(a, b) == a - b * CDiv(a, b)

\* ------------------------------------------------------------------------
\* tiling/types.hpp: Interval, Crop, Region
\* ------------------------------------------------------------------------
Interval(o, l) == [offset |-> o, length |-> l]
End(i) == i.offset + i.length
SetEnd(i, e) == [i EXCEPT !.length = e - i.offset]
Crop(s, e) == [start |-> s, end |-> e]
\* Interval::operator> : this interval contains the other
Contains(a, b) == a.offset <= b.offset /\ End(a) >= End(b)
\* Interval::operator|=(int) : widen to include a point
Widen(i, p) == Interval(Min(i.offset, p), Max(End(i), p) - Min(i.offset, p))
\* Interval - Interval : what must be cropped from a to leave b
IntervalDiff(a, b) == Crop(b.offset - a.offset, End(a) - End(b))
\* Interval - Crop
IntervalCrop(i, c) == Interval(i.offset + c.start, i.length - c.start - c.end)
CropSum(a, b) == Crop(a.start + b.start, a.end + b.end)
ZeroRegion == [input |-> Interval(0, 0), crop |-> Crop(0, 0), output |-> Interval(0, 0)]

\* ------------------------------------------------------------------------
\* The stage graph built by tile_pipeline for a TilingConfig c:
\*   input -> context -> split -> per branch b with an output image:
\*   crop b -> [downscale b] -> [rcontext b -> resample b] -> output b
\* ------------------------------------------------------------------------
InputId == <<"input", 0>>
ContextId == <<"context", 0>>
SplitId == <<"split", 0>>
StageIds == {InputId, ContextId, SplitId} \cup
            ({"crop", "downscale", "rcontext", "resample", "output"} \X Branches)

\* branches for which tile_pipeline builds stages, in construction order
RECURSIVE BranchSeq(_, _)
BranchSeq(c, b) ==
    IF b >= PISP_BACK_END_NUM_OUTPUTS THEN <<>>
    ELSE (IF c.output_image_size[b].x # 0 THEN <<b>> ELSE <<>>) \o BranchSeq(c, b + 1)
ActiveBranches(c) == BranchSeq(c, 0)

Upstream(c, id) ==
    LET b == id[2] IN
    CASE id[1] = "context" -> InputId
      [] id[1] = "split" -> ContextId
      [] id[1] = "crop" -> SplitId
      [] id[1] = "downscale" -> <<"crop", b>>
      [] id[1] = "rcontext" -> IF b \in c.downscale_enables THEN <<"downscale", b>> ELSE <<"crop", b>>
      [] id[1] = "resample" -> <<"rcontext", b>>
      [] id[1] = "output" -> IF b \in c.resample_enables THEN <<"resample", b>>
                             ELSE IF b \in c.downscale_enables THEN <<"downscale", b>>
                             ELSE <<"crop", b>>

Downstream(c, id) ==
    LET b == id[2] IN
    CASE id[1] = "input" -> ContextId
      [] id[1] = "context" -> SplitId
      [] id[1] = "crop" -> IF b \in c.downscale_enables THEN <<"downscale", b>>
                           ELSE IF b \in c.resample_enables THEN <<"rcontext", b>>
                           ELSE <<"output", b>>
      [] id[1] = "downscale" -> IF b \in c.resample_enables THEN <<"rcontext", b>> ELSE <<"output", b>>
      [] id[1] = "rcontext" -> <<"resample", b>>
      [] id[1] = "resample" -> <<"output", b>>

\* ContextStage::Config of the two kinds of context stage
ContextConfig(id, d) ==
    IF id[1] = "context"
    THEN [start |-> IF d = "x" THEN PipelineContextX ELSE PipelineContextY,
          end |-> IF d = "x" THEN PipelineContextX ELSE PipelineContextY,
          align |-> IF d = "x" THEN PipelineAlignX ELSE PipelineAlignY]
    ELSE [start |-> ResampleStartContext, end |-> ResampleEndContext, align |-> 1]

\* Stage::GetOutputImageSize along d
RECURSIVE GetOutputImageSize(_, _, _)
GetOutputImageSize(c, d, id) ==
    CASE id[1] = "input" -> c.input_image_size[d]
      [] id[1] = "crop" -> c.crop[id[2]][d].length
      [] id[1] = "downscale" -> c.downscale_image_size[id[2]][d]
      [] id[1] = "resample" -> c.output_image_size[id[2]][d]
      [] OTHER -> GetOutputImageSize(c, d, Upstream(c, id))
GetInputImageSize(c, d, id) ==
    IF id[1] = "input" THEN c.input_image_size[d] ELSE GetOutputImageSize(c, d, Upstream(c, id))

\* The state of the stages while one axis is tiled: each stage's
\* input_interval_, crop_, output_interval_; the split's count_; the first
\* exception thrown ("" for none).
\* split: history, the last call of SplitStage::PushEndDown: the end it was
\* offered, the ends its branches returned in the first loop, in order, and
\* the end it settled on (0 when it did not get there), and the ends it
\* passed to its branches in the second loop, in order
NoSplitCall == [offered |-> 0, reported |-> <<>>, given |-> 0, told |-> <<>>]
\* ends: history, the calls of OutputStage::PushEndDown since the split's
\* PushEndDown began: the branch, where its tile starts, the end it was
\* offered and the end it took
\* crops: history, the calls of CropStage::PushEndDown since the split's
\* PushEndDown began: the branch, the end offered, the output interval the
\* stage arrived at, what it returned and whether it called downstream
InitStages == [reg |-> [id \in StageIds |-> ZeroRegion], count |-> 0, err |-> "", split |-> NoSplitCall,
               ends |-> <<>>, crops |-> <<>>]
WithReg(S, id, r) == [S EXCEPT !.reg[id] = r]
WithOffsets(S, id, input_start, output_start) ==
    [S EXCEPT !.reg[id].input.offset = input_start, !.reg[id].output.offset = output_start]
WithEnds(S, id, input_end, output_end) ==
    [S EXCEPT !.reg[id].input = SetEnd(@, input_end), !.reg[id].output = SetEnd(@, output_end)]
Throw(S, e) == IF S.err = "" THEN [S EXCEPT !.err = e] ELSE S
\* PISP_ASSERT is assert(): a failed assertion aborts the call
PISP_ASSERT(S, cond) == IF cond THEN S ELSE Throw(S, "assert")

\* ------------------------------------------------------------------------
\* PushStartUp: an output's start is pushed up the graph to the input
\* ------------------------------------------------------------------------
RECURSIVE PushStartUp(_, _, _, _, _)

InputStage_PushStartUp(S, c, d, id, output_start) ==
    LET input_start == output_start - (output_start % c.input_alignment[d])
    IN WithOffsets(S, id, input_start, output_start)

ContextStage_PushStartUp(S, c, d, id, output_start) ==
    LET k == ContextConfig(id, d)
        clamped == Max(output_start - k.start, 0)
        input_start == clamped - (clamped % k.align)
    IN PushStartUp(WithOffsets(S, id, input_start, output_start), c, d, Upstream(c, id), input_start)

SplitStage_PushStartUp(S, c, d, id, output_start) ==
    LET iv == IF S.count = 0 THEN Interval(output_start, 0) ELSE Widen(S.reg[id].input, output_start)
        S1 == [S EXCEPT !.reg[id].input = iv, !.count = S.count + 1]
    IN IF S1.count = Len(ActiveBranches(c))
       THEN PushStartUp([S1 EXCEPT !.count = 0], c, d, Upstream(c, id), iv.offset)
       ELSE S1

CropStage_PushStartUp(S, c, d, id, output_start) ==
    LET input_start == output_start + c.crop[id[2]][d].offset
    IN IF input_start < 0 THEN Throw(S, "runtime_error")
       ELSE PushStartUp(WithOffsets(S, id, input_start, output_start), c, d, Upstream(c, id), input_start)

RescaleFactor(c, d, id) ==
    IF id[1] = "downscale" THEN c.downscale_factor[id[2]][d] ELSE c.resample_factor[id[2]][d]

RescaleStage_PushStartUp(S, c, d, id, output_start) ==
    LET input_start == (output_start * RescaleFactor(c, d, id)) \div UnityScale
    IN PushStartUp(WithOffsets(S, id, input_start, output_start), c, d, Upstream(c, id), input_start)

OutputStage_PushStartUp(S, c, d, id, output_start) ==
    PushStartUp(WithOffsets(S, id, output_start, output_start), c, d, Upstream(c, id), output_start)

PushStartUp(S, c, d, id, output_start) ==
    IF S.err # "" THEN S
    ELSE CASE id[1] = "input" -> InputStage_PushStartUp(S, c, d, id, output_start)
           [] id[1] \in {"context", "rcontext"} -> ContextStage_PushStartUp(S, c, d, id, output_start)
           [] id[1] = "split" -> SplitStage_PushStartUp(S, c, d, id, output_start)
           [] id[1] = "crop" -> CropStage_PushStartUp(S, c, d, id, output_start)
           [] id[1] \in {"downscale", "resample"} -> RescaleStage_PushStartUp(S, c, d, id, output_start)
           [] id[1] = "output" -> OutputStage_PushStartUp(S, c, d, id, output_start)

\* ------------------------------------------------------------------------
\* PushEndDown: the furthest input end is pushed down to the outputs; each
\* stage returns the input end it can actually use.  The result is the
\* pair [S, ret] of the stages' state and the returned end.
\* ------------------------------------------------------------------------
RECURSIVE PushEndDown(_, _, _, _, _)
Ret(S, r) == [S |-> S, ret |-> r]

\* crop_stage.cpp interval_valid
interval_valid(interval, min_tile_size) ==
    End(interval) >= min_tile_size /\ interval.length >= min_tile_size

\* BasicStage::Reset
BasicStage_Reset(S, id) == WithReg(S, id, ZeroRegion)

InputStage_PushEndUp(S, c, d, id, output_end) ==
    LET a == c.input_alignment[d]
        aligned == ((output_end + a - 1) \div a) * a
        input_end == Min(aligned, c.input_image_size[d])
    IN WithEnds(S, id, input_end, output_end)

InputStage_PushEndDown(S, c, d, id, input_end) ==
    LET a == c.input_alignment[d]
        clamped == IF input_end >= c.input_image_size[d] THEN c.input_image_size[d]
                   ELSE input_end - (input_end % a)
        r == PushEndDown(WithEnds(S, id, clamped, clamped), c, d, Downstream(c, id), clamped)
        S2 == InputStage_PushEndUp(r.S, c, d, id, r.ret)
    IN Ret(S2, End(S2.reg[id].input))

ContextStage_PushEndUp(S, c, d, id, output_end) ==
    LET k == ContextConfig(id, d)
        padded == output_end + k.end
        aligned == ((padded + k.align - 1) \div k.align) * k.align
        input_end == Min(aligned, GetInputImageSize(c, d, id))
    IN WithEnds(S, id, input_end, output_end)

ContextStage_PushEndDown(S, c, d, id, input_end) ==
    LET k == ContextConfig(id, d)
        size == GetInputImageSize(c, d, id)
        output_end == IF input_end >= size THEN size
                      ELSE (input_end - k.end) - CMod(input_end - k.end, k.align)
        r == PushEndDown(WithEnds(S, id, input_end, output_end), c, d, Downstream(c, id), output_end)
        S2 == ContextStage_PushEndUp(r.S, c, d, id, r.ret)
    IN Ret(S2, End(S2.reg[id].input))

\* SplitStage::PushEndDown, first loop: ask every branch how far it can get
\* with input_end and keep the furthest end any of them returns
RECURSIVE SplitStage_Query(_, _, _, _, _)
SplitStage_Query(S, c, d, kids, input_end) ==
    IF kids = <<>> \/ S.err # "" THEN S
    ELSE LET r == PushEndDown(S, c, d, <<"crop", Head(kids)>>, input_end)
             cur == r.S.reg[SplitId].input
             S1 == IF r.ret > End(cur) THEN [r.S EXCEPT !.reg[SplitId].input = SetEnd(cur, r.ret)]
                   ELSE r.S
             S2 == [S1 EXCEPT !.split.reported = Append(@, r.ret)]
         IN SplitStage_Query(S2, c, d, Tail(kids), input_end)

\* second loop: tell every branch the end it will really get
RECURSIVE SplitStage_Broadcast(_, _, _, _, _)
SplitStage_Broadcast(S, c, d, kids, input_end) ==
    IF kids = <<>> \/ S.err # "" THEN S
    ELSE LET S1 == PushEndDown(S, c, d, <<"crop", Head(kids)>>, input_end).S
         IN SplitStage_Broadcast([S1 EXCEPT !.split.told = Append(@, input_end)], c, d, Tail(kids), input_end)

SplitStage_PushEndDown_Offered(S, c, d, id, input_end) ==
    LET S0 == [S EXCEPT !.reg[id].input = SetEnd(@, 0),
                        !.split = [NoSplitCall EXCEPT !.offered = input_end],
                        !.ends = <<>>, !.crops = <<>>]
        S1 == SplitStage_Query(S0, c, d, ActiveBranches(c), input_end)
    IN IF S1.err # "" THEN Ret(S1, 0)
       ELSE Ret(SplitStage_Broadcast([S1 EXCEPT !.split.given = input_end], c, d,
                                     ActiveBranches(c), input_end), input_end)

SplitStage_PushEndDown(S, c, d, id, input_end) ==
    LET S0 == [S EXCEPT !.reg[id].input = SetEnd(@, 0),
                        !.split = [NoSplitCall EXCEPT !.offered = input_end],
                        !.ends = <<>>, !.crops = <<>>]
        S1 == SplitStage_Query(S0, c, d, ActiveBranches(c), input_end)
        iv == S1.reg[id].input
    IN IF S1.err # "" THEN Ret(S1, 0)
       ELSE IF iv.length = 0 THEN Ret(Throw(S1, "TilingException"), 0)
       ELSE Ret(SplitStage_Broadcast([S1 EXCEPT !.split.given = End(iv)], c, d,
                                     ActiveBranches(c), End(iv)), End(iv))

CropStage_PushEndUp(S, c, d, id, output_end) ==
    LET input_end == output_end + c.crop[id[2]][d].offset
        S1 == WithEnds(S, id, input_end, output_end)
    IN IF ~interval_valid(S1.reg[id].output, c.min_tile_size[d]) THEN BasicStage_Reset(S1, id) ELSE S1

CropCall(S, d, id, input_end, output, ret, passed) ==
    [S EXCEPT !.crops = Append(@, [branch |-> id[2], dir |-> d, offered |-> input_end,
                                   output |-> output, ret |-> ret, passed |-> passed])]

CropStage_PushEndDown(S, c, d, id, input_end) ==
    LET cfg == c.crop[id[2]][d]
        output_end == Min(input_end - cfg.offset, cfg.length)
        S1 == [S EXCEPT !.reg[id].output = SetEnd(@, output_end)]
    IN IF ~interval_valid(S1.reg[id].output, c.min_tile_size[d])
       THEN Ret(CropCall(BasicStage_Reset(S1, id), d, id, input_end, S1.reg[id].output, 0, FALSE), 0)
       ELSE LET S2 == [S1 EXCEPT !.reg[id].input = SetEnd(@, input_end)]
                r == PushEndDown(S2, c, d, Downstream(c, id), output_end)
                S3 == CropStage_PushEndUp(r.S, c, d, id, r.ret)
            IN Ret(CropCall(S3, d, id, input_end, S1.reg[id].output, End(S3.reg[id].input), TRUE),
                   End(S3.reg[id].input))

RescaleStage_PushEndUp(S, c, d, id, output_end) ==
    LET f == RescaleFactor(c, d, id)
        needed == IF id[1] = "downscale"
                  THEN (output_end * f + UnityScale - 1) \div UnityScale
                  ELSE IF output_end > 0 THEN ((output_end - 1) * f) \div UnityScale + 1 ELSE 0
        input_end == Min(needed, GetInputImageSize(c, d, id))
    IN WithEnds(S, id, input_end, output_end)

RescaleStage_PushEndDown(S, c, d, id, input_end) ==
    LET f == RescaleFactor(c, d, id)
        out_size == GetOutputImageSize(c, d, id)
        produced == IF id[1] = "downscale" THEN (input_end * UnityScale) \div f
                    ELSE IF input_end >= GetInputImageSize(c, d, id) THEN out_size
                    ELSE IF input_end > 0 THEN ((input_end - 1) * UnityScale) \div f + 1
                    ELSE 0
        output_end == Min(produced, out_size)
        r == PushEndDown(WithEnds(S, id, input_end, output_end), c, d, Downstream(c, id), output_end)
        S2 == RescaleStage_PushEndUp(r.S, c, d, id, r.ret)
    IN Ret(S2, End(S2.reg[id].input))

\* output_stage.cpp align_end
align_end(input_end, image_size, align, mirrored) ==
    IF mirrored
    THEN image_size - CDiv((image_size - input_end) + align - 1, align) * align
    ELSE IF input_end < image_size THEN input_end - CMod(input_end, align)
    ELSE input_end

OutputStage_PushEndUp(S, c, d, id, output_end) ==
    LET S1 == PISP_ASSERT(S, output_end = End(S.reg[id].output))
    IN IF S1.err # "" THEN S1 ELSE [S1 EXCEPT !.reg[id].input = SetEnd(@, output_end)]

\* the end an output takes, were it the best-aligned end that advances
OutputStage_PushEndDown_Eager(S, c, d, id, input_end) ==
    LET b == id[2]
        image_size == GetInputImageSize(c, d, id)
        mirrored == (d = "x" /\ c.output_h_mirror[b])
        by_max == align_end(input_end, image_size, c.output_max_alignment[b][d], mirrored)
        by_min == align_end(input_end, image_size, c.output_min_alignment[b][d], mirrored)
        output_end == IF by_max > S.reg[id].output.offset THEN by_max ELSE by_min
        S1 == WithEnds(S, id, input_end, output_end)
        S2 == [S1 EXCEPT !.reg[id].input = SetEnd(@, output_end)]
        S3 == [S2 EXCEPT !.ends = Append(@, [branch |-> b, dir |-> d, start |-> S.reg[id].output.offset,
                                             offered |-> input_end, taken |-> End(S2.reg[id].output)])]
    IN Ret(S3, End(S3.reg[id].input))

OutputStage_PushEndDown(S, c, d, id, input_end) ==
    LET b == id[2]
        image_size == GetInputImageSize(c, d, id)
        mirrored == (d = "x" /\ c.output_h_mirror[b])
        max_a == c.output_max_alignment[b][d]
        min_a == c.output_min_alignment[b][d]
        by_max == align_end(input_end, image_size, max_a, mirrored)
        by_min == align_end(input_end, image_size, min_a, mirrored)
        output_end == IF by_max >= S.reg[id].output.offset + max_a THEN by_max
                      ELSE IF by_min > S.reg[id].output.offset THEN by_min
                      ELSE IF S.reg[id].input.offset < image_size THEN by_min
                      ELSE input_end
        S1 == WithEnds(S, id, input_end, output_end)
        S2 == OutputStage_PushEndUp(S1, c, d, id, output_end)
        S3 == [S2 EXCEPT !.ends = Append(@, [branch |-> b, dir |-> d, start |-> S.reg[id].output.offset,
                                             offered |-> input_end, taken |-> End(S2.reg[id].output)])]
    IN Ret(S3, End(S3.reg[id].input))

PushEndDown(S, c, d, id, input_end) ==
    IF S.err # "" THEN Ret(S, 0)
    ELSE CASE id[1] = "input" -> InputStage_PushEndDown(S, c, d, id, input_end)
           [] id[1] \in {"context", "rcontext"} -> ContextStage_PushEndDown(S, c, d, id, input_end)
           [] id[1] = "split" -> SplitStage_PushEndDown(S, c, d, id, input_end)
           [] id[1] = "crop" -> CropStage_PushEndDown(S, c, d, id, input_end)
           [] id[1] \in {"downscale", "resample"} -> RescaleStage_PushEndDown(S, c, d, id, input_end)
           [] id[1] = "output" -> OutputStage_PushEndDown(S, c, d, id, input_end)

\* ------------------------------------------------------------------------
\* PushCropDown: the input interval actually read is pushed down; each stage
\* records what it must crop from what it is given
\* ------------------------------------------------------------------------
RECURSIVE PushCropDown(_, _, _, _, _)

InputStage_PushCropDown(S, c, d, id, interval) ==
    PushCropDown([S EXCEPT !.reg[id] = [input |-> interval, crop |-> Crop(0, 0), output |-> interval]],
                 c, d, Downstream(c, id), interval)

ContextStage_PushCropDown(S, c, d, id, interval) ==
    PushCropDown([S EXCEPT !.reg[id] = [input |-> interval, crop |-> Crop(0, 0), output |-> interval]],
                 c, d, Downstream(c, id), interval)

RECURSIVE SplitStage_CropKids(_, _, _, _, _)
SplitStage_CropKids(S, c, d, kids, interval) ==
    IF kids = <<>> \/ S.err # "" THEN S
    ELSE SplitStage_CropKids(PushCropDown(S, c, d, <<"crop", Head(kids)>>, interval),
                             c, d, Tail(kids), interval)

SplitStage_PushCropDown(S, c, d, id, interval) ==
    LET S1 == PISP_ASSERT(S, Contains(interval, S.reg[id].input))
    IN IF S1.err # "" THEN S1
       ELSE SplitStage_CropKids([S1 EXCEPT !.reg[id].input = interval], c, d, ActiveBranches(c), interval)

CropStage_PushCropDown(S, c, d, id, interval) ==
    IF ~interval_valid(S.reg[id].output, c.min_tile_size[d]) THEN BasicStage_Reset(S, id)
    ELSE LET S1 == PISP_ASSERT(S, Contains(interval, S.reg[id].input))
             shifted == Interval(interval.offset - c.crop[id[2]][d].offset, interval.length)
             S2 == [S1 EXCEPT !.reg[id].input = interval,
                              !.reg[id].crop = IntervalDiff(shifted, S.reg[id].output)]
         IN IF S1.err # "" THEN S1
            ELSE PushCropDown(S2, c, d, Downstream(c, id), S.reg[id].output)

RescaleStage_PushCropDown(S, c, d, id, interval) ==
    PushCropDown([S EXCEPT !.reg[id].crop = IntervalDiff(interval, S.reg[id].input),
                           !.reg[id].input = interval],
                 c, d, Downstream(c, id), S.reg[id].output)

OutputStage_PushCropDown(S, c, d, id, interval) ==
    LET crop_ == IntervalDiff(interval, S.reg[id].output)
        S1 == [S EXCEPT !.reg[id].input = interval, !.reg[id].crop = crop_]
    IN PISP_ASSERT(S1, crop_.start >= 0 /\ crop_.end >= 0)

PushCropDown(S, c, d, id, interval) ==
    IF S.err # "" THEN S
    ELSE CASE id[1] = "input" -> InputStage_PushCropDown(S, c, d, id, interval)
           [] id[1] \in {"context", "rcontext"} -> ContextStage_PushCropDown(S, c, d, id, interval)
           [] id[1] = "split" -> SplitStage_PushCropDown(S, c, d, id, interval)
           [] id[1] = "crop" -> CropStage_PushCropDown(S, c, d, id, interval)
           [] id[1] \in {"downscale", "resample"} -> RescaleStage_PushCropDown(S, c, d, id, interval)
           [] id[1] = "output" -> OutputStage_PushCropDown(S, c, d, id, interval)

\* ------------------------------------------------------------------------
\* CopyOut, Done and one iteration of Pipeline::tileDirection
\* ------------------------------------------------------------------------
\* the stages of a branch that tile_pipeline builds
BranchStages(c, b) ==
    {<<"crop", b>>, <<"output", b>>}
    \cup (IF b \in c.downscale_enables THEN {<<"downscale", b>>} ELSE {})
    \cup (IF b \in c.resample_enables THEN {<<"rcontext", b>>, <<"resample", b>>} ELSE {})
BuiltBranches(c) == {b \in Branches : c.output_image_size[b].x # 0}
BasicStages(c) == {InputId, ContextId} \cup UNION {BranchStages(c, b) : b \in BuiltBranches(c)}

\* No code of the output stage sets its branch_complete_ flag (Done is
\* const and Reset clears it), so a branch never reports complete.
OutputStage_GetBranchComplete(S, id) == FALSE

GetBranchComplete(S, c, id) ==
    IF id[1] \in {"input", "context", "split"}
    THEN \A b \in BuiltBranches(c) : OutputStage_GetBranchComplete(S, <<"output", b>>)
    ELSE OutputStage_GetBranchComplete(S, <<"output", id[2]>>)

\* CropStage::GetBranchInactive
CropStage_GetBranchInactive(S, id) == S.reg[id].output.length = 0

\* BasicStage::GetBranchInactive asks upstream; the input has no upstream
GetBranchInactive(S, c, id) ==
    IF id[1] \in {"input", "context", "split"} THEN FALSE
    ELSE CropStage_GetBranchInactive(S, <<"crop", id[2]>>)

\* BasicStage::CopyOut of every stage: a complete or inactive stage is reset
\* before its intervals are copied into the tile
CopyOut(S, c) ==
    [S EXCEPT !.reg = [id \in StageIds |->
        IF id \in BasicStages(c) /\ (GetBranchComplete(S, c, id) \/ GetBranchInactive(S, c, id))
        THEN ZeroRegion ELSE S.reg[id]]]

\* OutputStage::Done
OutputStage_Done_Early(S, c, d, id) ==
    End(S.reg[id].output) + PISP_BACK_END_MIN_TILE_WIDTH >= GetOutputImageSize(c, d, id)

OutputStage_Done(S, c, d, id) == End(S.reg[id].output) >= GetOutputImageSize(c, d, id)
AllDone(S, c, d) == \A b \in BuiltBranches(c) : OutputStage_Done(S, c, d, <<"output", b>>)

RECURSIVE StartOutputs(_, _, _, _)
StartOutputs(S, c, d, kids) ==
    IF kids = <<>> THEN S
    ELSE StartOutputs(PushStartUp(S, c, d, <<"output", Head(kids)>>, End(S.reg[<<"output", Head(kids)>>].output)),
                      c, d, Tail(kids))

\* the body of the loop of Pipeline::tileDirection
TileIteration(S, c, d) ==
    LET S1 == StartOutputs(S, c, d, ActiveBranches(c))
        S2 == PushEndDown(S1, c, d, InputId, S1.reg[InputId].input.offset + c.max_tile_size[d]).S
        S3 == PushCropDown(S2, c, d, InputId, S2.reg[InputId].input)
    IN IF S3.err # "" THEN S3 ELSE CopyOut(S3, c)

\* ------------------------------------------------------------------------
\* Image formats.  pisp_image_format is a bit field; a format is kept as
\* the record of the fields the code tests.
\* ------------------------------------------------------------------------
PISP_BACK_END_COMPRESSED_ALIGN == 8

Format(bps, three, planarity, sampling) ==
    [bps |-> bps, three_channel |-> three, planarity |-> planarity, sampling |-> sampling,
     compressed |-> FALSE, bpp32 |-> FALSE, wallpaper |-> FALSE]
PISP_IMAGE_FORMAT_BPS_8(f) == f.bps = 8
PISP_IMAGE_FORMAT_BPS_16(f) == f.bps = 16
PISP_IMAGE_FORMAT_BPS_10(f) == f.bps = 10
PISP_IMAGE_FORMAT_BPS_12(f) == f.bps = 12
PISP_IMAGE_FORMAT_BPP_32(f) == f.bpp32
PISP_IMAGE_FORMAT_PLANAR(f) == f.planarity = "PLANAR"
PISP_IMAGE_FORMAT_INTERLEAVED(f) == f.planarity = "INTERLEAVED"
PISP_IMAGE_FORMAT_SAMPLING_444(f) == f.sampling = "444"
PISP_IMAGE_FORMAT_SAMPLING_422(f) == f.sampling = "422"
PISP_IMAGE_FORMAT_SAMPLING_420(f) == f.sampling = "420"
PISP_IMAGE_FORMAT_COMPRESSED(f) == f.compressed
PISP_IMAGE_FORMAT_THREE_CHANNEL(f) == f.three_channel
PISP_IMAGE_FORMAT_WALLPAPER(f) == f.wallpaper
\* the width in bytes of a roll of the wallpaper layout
PISP_WALLPAPER_WIDTH == 128

\* round v up to a multiple of the power of two align: (v + align - 1) & ~(align - 1)
AlignUp(v, align) == ((v + align - 1) \div align) * align

compute_x_offset(format, x) ==
    IF PISP_IMAGE_FORMAT_BPP_32(format) THEN x * 4
    ELSE LET x_offset == IF PISP_IMAGE_FORMAT_BPS_16(format) THEN x * 2
                         ELSE IF PISP_IMAGE_FORMAT_BPS_12(format) THEN (x * 3 + 1) \div 2
                         ELSE IF PISP_IMAGE_FORMAT_BPS_10(format) THEN (x \div 3) * 4
                         ELSE x
         IN IF PISP_IMAGE_FORMAT_THREE_CHANNEL(format) /\ PISP_IMAGE_FORMAT_INTERLEAVED(format)
            THEN (IF PISP_IMAGE_FORMAT_SAMPLING_422(format) THEN x_offset * 2 ELSE x_offset * 3)
            ELSE x_offset

\* compute_stride_align without preserve_subsample_ratio, for formats that
\* are not HoG
compute_stride_align(config, align) ==
    LET rolls == config.height * PISP_WALLPAPER_WIDTH
        width == IF PISP_IMAGE_FORMAT_COMPRESSED(config.format) THEN AlignUp(config.width, 8)
                 ELSE config.width
        computed_stride == compute_x_offset(config.format, width)
        stride == IF config.stride = 0 \/ config.stride < computed_stride THEN computed_stride
                  ELSE config.stride
        stride2 == CASE config.format.planarity = "PLANAR" ->
                            (IF PISP_IMAGE_FORMAT_SAMPLING_422(config.format)
                                \/ PISP_IMAGE_FORMAT_SAMPLING_420(config.format) THEN stride \div 2
                             ELSE IF PISP_IMAGE_FORMAT_THREE_CHANNEL(config.format) THEN stride
                             ELSE 0)
                     [] config.format.planarity = "SEMI_PLANAR" -> stride
                     [] OTHER -> 0
    IN IF PISP_IMAGE_FORMAT_WALLPAPER(config.format)
       THEN [config EXCEPT !.stride = rolls,
                           !.stride2 = IF PISP_IMAGE_FORMAT_SAMPLING_420(config.format)
                                       THEN rolls \div 2 ELSE rolls]
       ELSE [config EXCEPT !.stride = AlignUp(stride, align), !.stride2 = AlignUp(stride2, align)]

compute_optimal_stride(config) == compute_stride_align(config, PISP_BACK_END_OUTPUT_MAX_ALIGN)

\* "Use 16 for now, as it gives better test coverage"
compute_stride(config) == compute_stride_align(config, PISP_BACK_END_OUTPUT_MIN_ALIGN)

\* check_stride: TRUE when it throws
check_stride_throws(config) ==
    \/ config.stride % PISP_BACK_END_OUTPUT_MIN_ALIGN # 0 \/ config.stride2 % PISP_BACK_END_OUTPUT_MIN_ALIGN # 0
    \/ PISP_IMAGE_FORMAT_WALLPAPER(config.format)
        /\ (config.stride % 128 # 0 \/ config.stride2 % 128 # 0)

\* compute_addr_offset: <<addr_offset, addr_offset2>>.  The offsets of the
\* images modelled are far below the 2^32 at which uint32_t wraps.  In the
\* wallpaper layout the code asserts that a 10-bit pixel is a multiple of 3
\* into its roll; the wallpaper images modelled have 8 bits.
compute_addr_offset(config, x, y) ==
    LET x_byte_offset == compute_x_offset(config.format, x)
        y2 == IF PISP_IMAGE_FORMAT_SAMPLING_420(config.format) THEN y \div 2 ELSE y
        x2 == IF PISP_IMAGE_FORMAT_PLANAR(config.format) /\ ~PISP_IMAGE_FORMAT_SAMPLING_444(config.format)
              THEN x_byte_offset \div 2 ELSE x_byte_offset
        pixels_in_roll == IF PISP_IMAGE_FORMAT_BPS_8(config.format) THEN PISP_WALLPAPER_WIDTH
                          ELSE IF PISP_IMAGE_FORMAT_BPS_16(config.format) THEN PISP_WALLPAPER_WIDTH \div 2
                          ELSE (PISP_WALLPAPER_WIDTH \div 4) * 3
        pixel_offset_in_roll == x % pixels_in_roll
        pixel_offset_in_bytes == IF PISP_IMAGE_FORMAT_BPS_8(config.format) THEN pixel_offset_in_roll
                                 ELSE IF PISP_IMAGE_FORMAT_BPS_16(config.format) THEN pixel_offset_in_roll * 2
                                 ELSE (pixel_offset_in_roll \div 3) * 4
        num_rolls == x \div pixels_in_roll
        addr_offset == num_rolls * config.stride + y * PISP_WALLPAPER_WIDTH + pixel_offset_in_bytes
    IN IF PISP_IMAGE_FORMAT_WALLPAPER(config.format)
       THEN <<addr_offset,
              IF PISP_IMAGE_FORMAT_SAMPLING_420(config.format)
              THEN num_rolls * config.stride2 + (y \div 2) * PISP_WALLPAPER_WIDTH + pixel_offset_in_bytes
              ELSE addr_offset>>
       ELSE <<y * config.stride + x_byte_offset,
              IF ~PISP_IMAGE_FORMAT_INTERLEAVED(config.format) THEN y2 * config.stride2 + x2 ELSE 0>>

get_pixel_alignment(format, byte_alignment) ==
    LET alignment_pixels == IF PISP_IMAGE_FORMAT_BPS_16(format) THEN byte_alignment \div 2
                            ELSE IF PISP_IMAGE_FORMAT_BPS_10(format) THEN (byte_alignment * 3) \div 4
                            ELSE IF PISP_IMAGE_FORMAT_BPP_32(format) THEN byte_alignment \div 4
                            ELSE byte_alignment
    IN IF PISP_IMAGE_FORMAT_PLANAR(format) /\ ~PISP_IMAGE_FORMAT_SAMPLING_444(format)
       THEN alignment_pixels * 2
       ELSE IF PISP_IMAGE_FORMAT_INTERLEAVED(format)
               /\ (PISP_IMAGE_FORMAT_SAMPLING_422(format) \/ PISP_IMAGE_FORMAT_SAMPLING_420(format))
       THEN alignment_pixels \div 2
       ELSE alignment_pixels

RECURSIVE gcd(_, _)
gcd(a, b) == IF b = 0 THEN a ELSE gcd(b, a % b)
lcm(a, b) == (a \div gcd(a, b)) * b

Length2(dx, dy) == [x |-> dx, y |-> dy]

calculate_input_alignment_Pairs(config) == Length2(2, 2)

calculate_input_alignment(config) ==
    IF <<"INPUT", 0>> \in config.global.rgb_enables
    THEN Length2(lcm(get_pixel_alignment(config.input_format.format, PISP_BACK_END_INPUT_ALIGN), 2),
                 IF PISP_IMAGE_FORMAT_SAMPLING_420(config.input_format.format) THEN 2 ELSE 1)
    ELSE LET bayer_enables == config.global.bayer_enables
             a0 == get_pixel_alignment(config.input_format.format, PISP_BACK_END_INPUT_ALIGN)
             a1 == IF PISP_IMAGE_FORMAT_COMPRESSED(config.input_format.format)
                      \/ ("TDN_INPUT" \in bayer_enables
                            /\ PISP_IMAGE_FORMAT_COMPRESSED(config.tdn_input_format.format))
                      \/ ("STITCH_INPUT" \in bayer_enables
                            /\ PISP_IMAGE_FORMAT_COMPRESSED(config.stitch_input_format.format))
                   THEN lcm(a0, PISP_BACK_END_COMPRESSED_ALIGN) ELSE a0
             a2 == IF "TDN_OUTPUT" \in bayer_enables
                   THEN lcm(a1, get_pixel_alignment(config.tdn_output_format.format,
                                                    PISP_BACK_END_OUTPUT_MIN_ALIGN))
                   ELSE a1
             a3 == IF "STITCH_OUTPUT" \in bayer_enables
                   THEN lcm(a2, get_pixel_alignment(config.stitch_output_format.format,
                                                    PISP_BACK_END_OUTPUT_MIN_ALIGN))
                   ELSE a2
         IN Length2(a3, 2)

calculate_output_alignment(format, align) ==
    Length2(get_pixel_alignment(format, align), IF PISP_IMAGE_FORMAT_SAMPLING_420(format) THEN 2 ELSE 1)

\* ------------------------------------------------------------------------
\* The BackEnd object.  The steps of Prepare are operators on the record
\*   o = [be_config_, be_config_extra_, smart_resize_, smart_resize_dirty_,
\*        retile_, finalise_tiling_, err]
\* of the members they read and write; err is the exception that has
\* propagated out of the call ("" for none), and a step after a throw
\* leaves o as it is.
\* ------------------------------------------------------------------------
INPUT == <<"INPUT", 0>>
OUTPUT(i) == <<"OUTPUT", i>>
DOWNSCALE(i) == <<"DOWNSCALE", i>>
RESAMPLE(i) == <<"RESAMPLE", i>>

\* PiSPVariant::BackEndDownscalerAvailable(0, i) of BCM2712
BackEndDownscalerAvailable(i) == i = 1

\* BackEnd::SetDownscale(i, downscale_extra)
SetDownscaleExtra(o, i, downscale_extra) ==
    [o EXCEPT !.be_config_extra_.downscale[i] = downscale_extra,
              !.be_config_extra_.dirty_flags_rgb = @ \cup {DOWNSCALE(i)},
              !.retile_ = TRUE]

\* pisp_be_resample_extra: the scaled size and the initial phases of the
\* three planes, horizontal and vertical (int16_t)
ZeroPhases == <<0, 0, 0>>
ResampleExtra(w, h, ph, pv) ==
    [scaled_width |-> w, scaled_height |-> h, initial_phase_h |-> ph, initial_phase_v |-> pv]

\* BackEnd::SetResample(i, resample_extra)
SetResampleExtra(o, i, resample_extra) ==
    [o EXCEPT !.be_config_extra_.resample[i] = resample_extra,
              !.be_config_extra_.dirty_flags_rgb = @ \cup {RESAMPLE(i)},
              !.retile_ = TRUE]

getOutputSize(o, i, ifmt) ==
    IF o.smart_resize_[i].width # 0 /\ o.smart_resize_[i].height # 0
    THEN Length2(o.smart_resize_[i].width, o.smart_resize_[i].height)
    ELSE IF RESAMPLE(i) \in o.be_config_.global.rgb_enables
    THEN Length2(o.be_config_extra_.resample[i].scaled_width, o.be_config_extra_.resample[i].scaled_height)
    ELSE IF DOWNSCALE(i) \in o.be_config_.global.rgb_enables
    THEN Length2(o.be_config_extra_.downscale[i].scaled_width, o.be_config_extra_.downscale[i].scaled_height)
    ELSE IF o.be_config_extra_.crop[i].width # 0
    THEN Length2(o.be_config_extra_.crop[i].width, o.be_config_extra_.crop[i].height)
    ELSE Length2(ifmt.width, ifmt.height)

\* ComputeOutputImageFormat(i, be_config_.output_format[i].image, ifmt)
ComputeOutputImageFormat(o, i, ifmt) ==
    IF o.err # "" THEN o
    ELSE IF OUTPUT(i) \in o.be_config_.global.rgb_enables
    THEN LET size == getOutputSize(o, i, ifmt)
             fmt == [o.be_config_.output_format[i].image EXCEPT !.width = size.x, !.height = size.y]
         IN IF fmt.stride = 0
            THEN [o EXCEPT !.be_config_.output_format[i].image = compute_stride(fmt)]
            ELSE IF check_stride_throws(fmt)
            THEN Throw([o EXCEPT !.be_config_.output_format[i].image = fmt], "runtime_error")
            ELSE [o EXCEPT !.be_config_.output_format[i].image = fmt]
    ELSE [o EXCEPT !.be_config_.output_format[i].image.width = 0,
                   !.be_config_.output_format[i].image.height = 0,
                   !.be_config_.output_format[i].image.stride = 0,
                   !.be_config_.output_format[i].image.stride2 = 0]

clamp_Unbounded(v, lo, hi) == v

\* std::clamp
clamp(v, lo, hi) == IF v < lo THEN lo ELSE IF hi < v THEN hi ELSE v

SmartResizeWanted_Always(o, i) == TRUE

\* updateSmartResize touches branch i when its request or the crop is dirty
\* and the request is not empty
SmartResizeWanted(o, i) ==
    /\ (i \in o.smart_resize_dirty_ \/ "CROP" \in o.be_config_extra_.dirty_flags_extra)
    /\ o.smart_resize_[i].width # 0 /\ o.smart_resize_[i].height # 0

\* the body of the loop of BackEnd::updateSmartResize for branch i
SmartResizeBranch(o, i) ==
    LET ce == o.be_config_extra_
        input_width == IF ce.crop[i].width # 0 THEN ce.crop[i].width ELSE o.be_config_.input_format.width
        input_height == IF ce.crop[i].height # 0 THEN ce.crop[i].height ELSE o.be_config_.input_format.height
        resampler_output_width == o.smart_resize_[i].width
        resampler_output_height == o.smart_resize_[i].height
        use_downscaler == BackEndDownscalerAvailable(i)
                          /\ (resampler_output_width * 2 < input_width
                              \/ resampler_output_height * 2 < input_height)
        downscaler_output_width ==
            IF resampler_output_width * 2 < input_width
            THEN clamp(resampler_output_width * 2, (input_width + 7) \div 8, input_width \div 2)
            ELSE input_width
        downscaler_output_height ==
            IF resampler_output_height * 2 < input_height
            THEN clamp(resampler_output_height * 2, (input_height + 7) \div 8, input_height \div 2)
            ELSE input_height
        o1 == IF use_downscaler
              THEN [SetDownscaleExtra(o, i, [scaled_width |-> downscaler_output_width,
                                             scaled_height |-> downscaler_output_height])
                    EXCEPT !.be_config_.global.rgb_enables = @ \cup {DOWNSCALE(i)}]
              ELSE [o EXCEPT !.be_config_.global.rgb_enables = @ \ {DOWNSCALE(i)}]
        o2 == SetResampleExtra(o1, i, ResampleExtra(resampler_output_width, resampler_output_height,
                                                    ZeroPhases, ZeroPhases))
    IN IF SmartResizeWanted(o, i)
       THEN [o2 EXCEPT !.be_config_.global.rgb_enables = @ \cup {RESAMPLE(i)}]
       ELSE o

RECURSIVE SmartResizeLoop(_, _)
SmartResizeLoop(o, i) ==
    IF i >= PISP_BACK_END_NUM_OUTPUTS THEN o ELSE SmartResizeLoop(SmartResizeBranch(o, i), i + 1)

updateSmartResize(o) ==
    IF o.err # "" THEN o ELSE [SmartResizeLoop(o, 0) EXCEPT !.smart_resize_dirty_ = {}]

\* ------------------------------------------------------------------------
\* finaliseConfig and the finalise_* functions it calls
\* ------------------------------------------------------------------------
finalise_bayer_rgb_inputs(o) ==
    IF o.be_config_.input_format.width < PISP_BACK_END_MIN_TILE_WIDTH
       \/ o.be_config_.input_format.height < PISP_BACK_END_MIN_TILE_HEIGHT
    THEN Throw(o, "runtime_error") ELSE o

\* finaliseConfig calls finalise_inputs when the Bayer input is dirty and
\* enabled, and not otherwise
finalise_inputs(o) ==
    LET f == o.be_config_.input_format
        g == o.be_config_.global
    IN IF o.err # "" THEN o
       ELSE IF "INPUT" \in g.bayer_enables
       THEN (IF f.width % 2 = 1 \/ f.height % 2 = 1 THEN Throw(o, "runtime_error")
             ELSE IF f.stride % 16 # 0 THEN Throw(o, "runtime_error")
             ELSE o)
       ELSE IF INPUT \in g.rgb_enables
       THEN (IF PISP_IMAGE_FORMAT_SAMPLING_420(f.format) /\ f.width % 2 = 1 THEN Throw(o, "runtime_error")
             ELSE IF (PISP_IMAGE_FORMAT_SAMPLING_420(f.format) \/ PISP_IMAGE_FORMAT_SAMPLING_422(f.format))
                     /\ f.width % 2 = 1
             THEN Throw(o, "runtime_error")
             ELSE IF PISP_IMAGE_FORMAT_WALLPAPER(f.format)
             THEN (IF f.stride % 128 # 0 \/ f.stride2 % 128 # 0 THEN Throw(o, "runtime_error") ELSE o)
             ELSE IF f.stride % 16 # 0 \/ f.stride2 % 16 # 0 THEN Throw(o, "runtime_error")
             ELSE o)
       ELSE o

finalise_decompression(o) ==
    LET fmt == o.be_config_.input_format.format
        bayer_enables == o.be_config_.global.bayer_enables
    IN IF o.err # "" THEN o
       ELSE IF PISP_IMAGE_FORMAT_COMPRESSED(fmt) /\ "DECOMPRESS" \notin bayer_enables
       THEN Throw(o, "runtime_error")
       ELSE IF ~PISP_IMAGE_FORMAT_COMPRESSED(fmt) /\ "DECOMPRESS" \in bayer_enables
       THEN Throw(o, "runtime_error")
       ELSE IF "DECOMPRESS" \in bayer_enables /\ ~PISP_IMAGE_FORMAT_BPS_8(fmt)
       THEN Throw(o, "runtime_error")
       ELSE o

\* check_rawio_format: the image as it leaves it, and whether it throws
check_rawio_format(fmt, w, h) ==
    LET sized == IF fmt.width = 0 \/ fmt.height = 0 THEN [fmt EXCEPT !.width = w, !.height = h] ELSE fmt
    IN IF fmt.width # 0 /\ fmt.height # 0 /\ (fmt.width # w \/ fmt.height # h)
       THEN [fmt |-> fmt, throws |-> TRUE]
       ELSE IF sized.stride = 0 THEN [fmt |-> compute_stride(sized), throws |-> FALSE]
       ELSE [fmt |-> sized, throws |-> check_stride_throws(sized)]

\* the image named field of be_config_ after check_rawio_format
CheckRawio(o, field) ==
    LET r == check_rawio_format(o.be_config_[field], o.be_config_.input_format.width,
                                o.be_config_.input_format.height)
        o1 == [o EXCEPT !.be_config_[field] = r.fmt]
    IN IF o.err # "" THEN o ELSE IF r.throws THEN Throw(o1, "runtime_error") ELSE o1

finalise_tdn(o) ==
    LET c == o.be_config_
        tdn_enabled == "TDN" \in c.global.bayer_enables
        tdn_input_enabled == "TDN_INPUT" \in c.global.bayer_enables
        tdn_decompress_enabled == "TDN_DECOMPRESS" \in c.global.bayer_enables
        tdn_compress_enabled == "TDN_COMPRESS" \in c.global.bayer_enables
        tdn_output_enabled == "TDN_OUTPUT" \in c.global.bayer_enables
        fmt == c.tdn_output_format.format
        output(p) == IF tdn_output_enabled THEN CheckRawio(p, "tdn_output_format") ELSE p
        input(p) == IF tdn_input_enabled THEN CheckRawio(p, "tdn_input_format") ELSE p
        \* "if the input format is unset, inherit it from the output"
        inherit(p) == IF p.be_config_.tdn_input_format.width = 0 /\ p.be_config_.tdn_input_format.height = 0
                      THEN [p EXCEPT !.be_config_.tdn_input_format = p.be_config_.tdn_output_format]
                      ELSE p
        \* the checks of the input, on the object o3 with the format inherited
        checked(o3) ==
            IF PISP_IMAGE_FORMAT_COMPRESSED(fmt) /\ ~tdn_decompress_enabled THEN Throw(o3, "runtime_error")
            ELSE IF ~PISP_IMAGE_FORMAT_COMPRESSED(fmt) /\ tdn_decompress_enabled THEN Throw(o3, "runtime_error")
            ELSE IF tdn_compress_enabled /\ ~PISP_IMAGE_FORMAT_BPS_8(fmt) THEN Throw(o3, "runtime_error")
            ELSE o3
        \* what follows the two format checks, on the object o2 they left
        enabled(o2) ==
            IF o2.err # "" THEN o2
            ELSE IF ~tdn_enabled
            THEN (IF tdn_input_enabled THEN Throw(o2, "runtime_error") ELSE o2)
            ELSE IF c.tdn.reset
            THEN (IF tdn_input_enabled THEN Throw(o2, "runtime_error") ELSE o2)
            ELSE IF ~tdn_input_enabled THEN Throw(o2, "runtime_error")
            ELSE checked(inherit(o2))
    IN IF o.err # "" THEN o
       ELSE IF tdn_enabled /\ ~tdn_output_enabled THEN Throw(o, "runtime_error")
       ELSE IF PISP_IMAGE_FORMAT_COMPRESSED(fmt) /\ ~tdn_compress_enabled THEN Throw(o, "runtime_error")
       ELSE IF ~PISP_IMAGE_FORMAT_COMPRESSED(fmt) /\ tdn_compress_enabled THEN Throw(o, "runtime_error")
       ELSE IF tdn_compress_enabled /\ ~PISP_IMAGE_FORMAT_BPS_8(fmt) THEN Throw(o, "runtime_error")
       ELSE enabled(input(output(o)))

finalise_stitch(o) ==
    LET c == o.be_config_
        stitch_enabled == "STITCH" \in c.global.bayer_enables
        stitch_input_enabled == "STITCH_INPUT" \in c.global.bayer_enables
        stitch_decompress_enabled == "STITCH_DECOMPRESS" \in c.global.bayer_enables
        stitch_compress_enabled == "STITCH_COMPRESS" \in c.global.bayer_enables
        stitch_output_enabled == "STITCH_OUTPUT" \in c.global.bayer_enables
        input_fmt == c.stitch_input_format.format
        output_fmt == c.stitch_output_format.format
        o1 == IF stitch_output_enabled THEN CheckRawio(o, "stitch_output_format") ELSE o
        o2 == IF stitch_input_enabled THEN CheckRawio(o1, "stitch_input_format") ELSE o1
        t == c.stitch.motion_threshold_256
        recip == IF t = 0 THEN 255 ELSE IF (256 + t - 1) \div t < 255 THEN (256 + t - 1) \div t ELSE 255
    IN IF o.err # "" THEN o
       ELSE IF stitch_enabled # stitch_input_enabled THEN Throw(o, "runtime_error")
       ELSE IF stitch_input_enabled /\ PISP_IMAGE_FORMAT_COMPRESSED(input_fmt) /\ ~stitch_decompress_enabled
       THEN Throw(o, "runtime_error")
       ELSE IF stitch_input_enabled /\ ~PISP_IMAGE_FORMAT_COMPRESSED(input_fmt) /\ stitch_decompress_enabled
       THEN Throw(o, "runtime_error")
       ELSE IF stitch_output_enabled /\ PISP_IMAGE_FORMAT_COMPRESSED(output_fmt) /\ ~stitch_compress_enabled
       THEN Throw(o, "runtime_error")
       ELSE IF stitch_output_enabled /\ ~PISP_IMAGE_FORMAT_COMPRESSED(output_fmt) /\ stitch_compress_enabled
       THEN Throw(o, "runtime_error")
       ELSE IF stitch_decompress_enabled /\ ~PISP_IMAGE_FORMAT_BPS_8(input_fmt) THEN Throw(o, "runtime_error")
       ELSE IF stitch_compress_enabled /\ ~PISP_IMAGE_FORMAT_BPS_8(output_fmt) THEN Throw(o, "runtime_error")
       ELSE IF o2.err # "" THEN o2
       ELSE IF c.stitch.motion_threshold_recip = 0
       THEN [o2 EXCEPT !.be_config_.stitch.motion_threshold_recip = recip]
       ELSE o2

\* PISP_BE_LSC_GRID_SIZE << PISP_BE_LSC_STEP_PRECISION
LscGridRange == 32 * 2 ^ 18

finalise_lsc(o) ==
    LET width == o.be_config_.input_format.width
        height == o.be_config_.input_format.height
        o1 == [o EXCEPT !.be_config_.lsc.grid_step_x = IF @ = 0 THEN (LscGridRange \div width) % U16 ELSE @,
                        !.be_config_.lsc.grid_step_y = IF @ = 0 THEN (LscGridRange \div height) % U16 ELSE @]
    IN IF o.err # "" THEN o
       ELSE PISP_ASSERT(o1, o1.be_config_.lsc.grid_step_x * (width + o.be_config_extra_.lsc.offset_x - 1)
                                < LscGridRange
                            /\ o1.be_config_.lsc.grid_step_y * (height + o.be_config_extra_.lsc.offset_y - 1)
                                < LscGridRange)

\* the divisions are made before the targets have been looked at: with a
\* target of zero the quotient is undefined
finalise_downscale(o, j, width, height) ==
    LET extra == o.be_config_extra_.downscale[j]
        scale_factor_h == (width * UnityScale) \div extra.scaled_width
        scale_factor_v == (height * UnityScale) \div extra.scaled_height
    IN IF extra.scaled_width = 0 \/ extra.scaled_height = 0 THEN Throw(o, "division_by_zero")
       ELSE IF (scale_factor_h # UnityScale /\ (scale_factor_h < 2 * UnityScale \/ scale_factor_h > 8 * UnityScale))
          \/ (scale_factor_v # UnityScale /\ (scale_factor_v < 2 * UnityScale \/ scale_factor_v > 8 * UnityScale))
       THEN Throw(o, "runtime_error")
       ELSE [o EXCEPT !.be_config_.downscale[j] =
                          [scale_factor_h |-> scale_factor_h, scale_factor_v |-> scale_factor_v,
                           scale_recip_h |-> (extra.scaled_width * UnityScale) \div width,
                           scale_recip_v |-> (extra.scaled_height * UnityScale) \div height]]

\* here the divisor is the target less one: with a target of one the
\* quotient is undefined; with a target of zero it is negative, and as an
\* unsigned number is above every limit
finalise_resample(o, j, width, height) ==
    LET extra == o.be_config_extra_.resample[j]
        scale_factor_h == ((width - 1) * UnityScale) \div (extra.scaled_width - 1)
        scale_factor_v == ((height - 1) * UnityScale) \div (extra.scaled_height - 1)
    IN IF extra.scaled_width = 1 \/ extra.scaled_height = 1 THEN Throw(o, "division_by_zero")
       ELSE IF (scale_factor_h < UnityScale \div 16 \/ scale_factor_h >= 16 * UnityScale)
          \/ (scale_factor_v < UnityScale \div 16 \/ scale_factor_v >= 16 * UnityScale)
       THEN Throw(o, "runtime_error")
       ELSE [o EXCEPT !.be_config_.resample[j] =
                          [scale_factor_h |-> scale_factor_h, scale_factor_v |-> scale_factor_v]]

finalise_output(o, j) ==
    LET image == o.be_config_.output_format[j].image
    IN IF image.width < PISP_BACK_END_MIN_TILE_WIDTH \/ image.height < PISP_BACK_END_MIN_TILE_HEIGHT
       THEN Throw(o, "runtime_error")
       ELSE IF PISP_IMAGE_FORMAT_SAMPLING_420(image.format) /\ image.height % 2 = 1
       THEN Throw(o, "runtime_error")
       ELSE IF (PISP_IMAGE_FORMAT_SAMPLING_420(image.format) \/ PISP_IMAGE_FORMAT_SAMPLING_422(image.format))
               /\ image.width % 2 = 1
       THEN Throw(o, "runtime_error")
       ELSE IF PISP_IMAGE_FORMAT_WALLPAPER(image.format)
       THEN (IF image.stride % 128 # 0 \/ image.stride2 % 128 # 0 THEN Throw(o, "runtime_error") ELSE o)
       ELSE IF image.stride % 16 # 0 \/ image.stride2 % 16 # 0 THEN Throw(o, "runtime_error")
       ELSE o

\* the body of the loop of finaliseConfig over the output branches
FinaliseBranch(o, j) ==
    LET c == o.be_config_
        ce == o.be_config_extra_
        dirty_flags_rgb == ce.dirty_flags_rgb \cap c.global.rgb_enables
        w0 == IF ce.crop[j].width # 0 THEN ce.crop[j].width ELSE c.input_format.width
        h0 == IF ce.crop[j].width # 0 THEN ce.crop[j].height ELSE c.input_format.height
        o1 == IF DOWNSCALE(j) \in dirty_flags_rgb
              THEN (IF BackEndDownscalerAvailable(j) THEN finalise_downscale(o, j, w0, h0)
                    ELSE Throw(o, "runtime_error"))
              ELSE o
        w == IF DOWNSCALE(j) \in c.global.rgb_enables THEN ce.downscale[j].scaled_width ELSE w0
        h == IF DOWNSCALE(j) \in c.global.rgb_enables THEN ce.downscale[j].scaled_height ELSE h0
        o2 == IF o1.err = "" /\ RESAMPLE(j) \in dirty_flags_rgb THEN finalise_resample(o1, j, w, h) ELSE o1
        o3 == IF o2.err = "" /\ OUTPUT(j) \in dirty_flags_rgb THEN finalise_output(o2, j) ELSE o2
    IN IF o.err # "" \/ OUTPUT(j) \notin c.global.rgb_enables THEN o ELSE o3

RECURSIVE FinaliseBranches(_, _)
FinaliseBranches(o, j) ==
    IF j >= PISP_BACK_END_NUM_OUTPUTS THEN o ELSE FinaliseBranches(FinaliseBranch(o, j), j + 1)

FinaliseEnables_None(o) == o

\* the checks that end finaliseConfig: a sane collection of enable bits
FinaliseEnables(o) ==
    LET g == o.be_config_.global
    IN IF o.err # "" THEN o
       ELSE IF ~("INPUT" \in g.bayer_enables \/ g.bayer_enables = {}) THEN Throw(o, "runtime_error")
       ELSE IF ("INPUT" \in g.bayer_enables) = (INPUT \in g.rgb_enables) THEN Throw(o, "runtime_error")
       ELSE IF g.bayer_enables \cap {"TDN_OUTPUT", "STITCH_OUTPUT"} = {}
               /\ {i \in Branches : OUTPUT(i) \in g.rgb_enables} = {} THEN Throw(o, "runtime_error")
       ELSE o

finaliseConfig(o) ==
    LET dirty_flags_bayer == o.be_config_extra_.dirty_flags_bayer \cap o.be_config_.global.bayer_enables
        dirty_flags_rgb == o.be_config_extra_.dirty_flags_rgb \cap o.be_config_.global.rgb_enables
        \* the steps in the order of the code, each on the object p the
        \* step before it left
        bayer_rgb_inputs(p) == IF "INPUT" \in dirty_flags_bayer \/ INPUT \in dirty_flags_rgb
                               THEN finalise_bayer_rgb_inputs(p) ELSE p
        inputs(p) == IF "INPUT" \in dirty_flags_bayer THEN finalise_inputs(p) ELSE p
        decompression(p) == IF dirty_flags_bayer \cap {"INPUT", "DECOMPRESS"} # {}
                            THEN finalise_decompression(p) ELSE p
        tdn(p) == IF o.be_config_extra_.dirty_flags_bayer
                        \cap {"TDN", "TDN_INPUT", "TDN_DECOMPRESS", "TDN_COMPRESS", "TDN_OUTPUT"} # {}
                  THEN finalise_tdn(p) ELSE p
        stitch(p) == IF o.be_config_extra_.dirty_flags_bayer
                           \cap {"STITCH", "STITCH_INPUT", "STITCH_DECOMPRESS", "STITCH_COMPRESS",
                                 "STITCH_OUTPUT"} # {}
                     THEN finalise_stitch(p) ELSE p
        lsc(p) == IF "LSC" \in dirty_flags_bayer THEN finalise_lsc(p) ELSE p
    IN IF o.err # "" THEN o
       ELSE FinaliseEnables(FinaliseBranches(
                lsc(stitch(tdn(decompression(inputs(bayer_rgb_inputs(o)))))), 0))

\* BackEnd::Prepare up to the call of updateTiles
RECURSIVE ComputeOutputImageFormats(_, _)
ComputeOutputImageFormats(o, i) ==
    IF i >= PISP_BACK_END_NUM_OUTPUTS THEN o
    ELSE ComputeOutputImageFormats(ComputeOutputImageFormat(o, i, o.be_config_.input_format), i + 1)

CheckInputs(o) ==
    LET g == o.be_config_.global
    IN IF "INPUT" \notin g.bayer_enables /\ INPUT \notin g.rgb_enables THEN Throw(o, "runtime_error")
       ELSE IF "INPUT" \in g.bayer_enables /\ INPUT \in g.rgb_enables THEN Throw(o, "runtime_error")
       ELSE o

PrepareConfig(o) == finaliseConfig(updateSmartResize(ComputeOutputImageFormats(CheckInputs(o), 0)))

\* the TilingConfig that updateTiles hands to retilePipeline
MakeTilingConfig(o, config_) ==
    LET c == o.be_config_
        ce == o.be_config_extra_
    IN [input_alignment |-> calculate_input_alignment(c),
        input_image_size |-> Length2(c.input_format.width, c.input_format.height),
        crop |-> [i \in Branches |->
                    IF ce.crop[i].width = 0 \/ ce.crop[i].height = 0
                    THEN Length2(Interval(0, c.input_format.width), Interval(0, c.input_format.height))
                    ELSE Length2(Interval(ce.crop[i].offset_x, ce.crop[i].width),
                                 Interval(ce.crop[i].offset_y, ce.crop[i].height))],
        output_h_mirror |-> [i \in Branches |-> "HFLIP" \in c.output_format[i].transform],
        downscale_factor |-> [i \in Branches |->
                                Length2(c.downscale[i].scale_factor_h, c.downscale[i].scale_factor_v)],
        resample_factor |-> [i \in Branches |->
                                Length2(c.resample[i].scale_factor_h, c.resample[i].scale_factor_v)],
        downscale_image_size |-> [i \in Branches |->
                                Length2(ce.downscale[i].scaled_width, ce.downscale[i].scaled_height)],
        output_image_size |-> [i \in Branches |->
                                Length2(c.output_format[i].image.width, c.output_format[i].image.height)],
        output_max_alignment |-> [i \in Branches |->
                calculate_output_alignment(c.output_format[i].image.format, PISP_BACK_END_OUTPUT_MAX_ALIGN)],
        output_min_alignment |-> [i \in Branches |->
                calculate_output_alignment(c.output_format[i].image.format, PISP_BACK_END_OUTPUT_MIN_ALIGN)],
        max_tile_size |-> Length2(IF config_.max_tile_width # 0 THEN config_.max_tile_width
                                  ELSE BackEndMaxTileWidth,
                                  IF config_.max_stripe_height # 0 THEN config_.max_stripe_height
                                  ELSE MaxStripeHeight),
        min_tile_size |-> Length2(PISP_BACK_END_MIN_TILE_WIDTH, PISP_BACK_END_MIN_TILE_HEIGHT),
        resample_enables |-> {i \in Branches : RESAMPLE(i) \in c.global.rgb_enables},
        downscale_enables |-> {i \in Branches : DOWNSCALE(i) \in c.global.rgb_enables}]

\* ------------------------------------------------------------------------
\* retilePipeline: the conversion of the planner's tiles into pisp_tile
\* records.  tx and ty are the regions of every stage for the tile's column
\* and row.  The phases are kept per plane and branch, plane p of branch j
\* at index p * BackEndNumBranches + j.
\* ------------------------------------------------------------------------
NumPhases == 16
UnityPhase == 2 ^ 12

TileEdges(i, nx, ny) ==
    (IF i < nx THEN {"TOP"} ELSE {}) \cup (IF i >= nx * (ny - 1) THEN {"BOTTOM"} ELSE {})
    \cup (IF i % nx = 0 THEN {"LEFT"} ELSE {}) \cup (IF (i + 1) % nx = 0 THEN {"RIGHT"} ELSE {})

\* the fields of branch j along one axis, from the regions r of that axis
BranchAxis(o, r, j) ==
    LET rgb_enables == o.be_config_.global.rgb_enables
        out == r[<<"output", j>>]
        crop == r[<<"crop", j>>]
        down == r[<<"downscale", j>>]
        res == r[<<"resample", j>>]
        resample_size == IF DOWNSCALE(j) \in rgb_enables THEN down.output
                         ELSE IntervalCrop(crop.output, res.crop)
        downscale_crop == IF DOWNSCALE(j) \in rgb_enables THEN CropSum(down.crop, crop.crop)
                          ELSE IF RESAMPLE(j) \in rgb_enables THEN CropSum(res.crop, crop.crop)
                          ELSE CropSum(out.crop, crop.crop)
    IN [crop_start |-> downscale_crop.start % U16, crop_end |-> downscale_crop.end % U16,
        resample_in |-> resample_size.length % U16, resample_offset |-> resample_size.offset,
        output_offset |-> out.output.offset % U16, output_size |-> out.output.length % U16]

downscale_phase(resample_offset, scale_factor) ==
    UnityPhase - ((resample_offset * scale_factor) % UnityScale)

\* the phase of the interpolated input pixel plus the "user defined initial
\* phase - this could be negative!", stored in a uint16_t
resample_phase(output_offset, scale_factor, initial_phase) ==
    LET interpolated_pix == (output_offset * NumPhases * scale_factor) \div UnityScale
    IN (((interpolated_pix % NumPhases) * UnityScale) \div NumPhases + initial_phase) % U16

NumPlanes == 3
PhaseIndex == 0 .. (NumPlanes * PISP_BACK_END_NUM_OUTPUTS - 1)
PlaneOf(n) == n \div PISP_BACK_END_NUM_OUTPUTS
BranchOf(n) == n % PISP_BACK_END_NUM_OUTPUTS

InputAxis_End(r) ==
    [offset |-> r[InputId].input.offset % U16, size |-> End(r[InputId].input) % U16]

\* the offset and the size of a tile's input along one axis
InputAxis(r) ==
    [offset |-> r[InputId].input.offset % U16, size |-> r[InputId].input.length % U16]

NoOutput_Never(o, tx, ty, j) == FALSE

\* "If a tile produces no output there's no point sending anything down
\* this branch"
NoOutput(o, tx, ty, j) ==
    /\ OUTPUT(j) \in o.be_config_.global.rgb_enables
    /\ (tx[<<"output", j>>].output.length = 0 \/ ty[<<"output", j>>].output.length = 0)

ConvertTile(o, tx, ty, i, nx, ny) ==
    LET rgb_enables == o.be_config_.global.rgb_enables
        input_width == InputAxis(tx).size
        input_height == InputAxis(ty).size
        empty(j) == NoOutput(o, tx, ty, j)
        X(j) == BranchAxis(o, tx, j)
        Y(j) == BranchAxis(o, ty, j)
    IN [edge |-> TileEdges(i, nx, ny),
        input_offset_x |-> InputAxis(tx).offset,
        input_offset_y |-> InputAxis(ty).offset,
        input_width |-> input_width,
        input_height |-> input_height,
        input_addr_offset |-> 0, input_addr_offset2 |-> 0,
        tdn_input_addr_offset |-> 0, tdn_output_addr_offset |-> 0,
        stitch_input_addr_offset |-> 0, stitch_output_addr_offset |-> 0,
        lsc_grid_offset_x |-> 0, lsc_grid_offset_y |-> 0,
        crop_x_start |-> [j \in Branches |-> IF empty(j) THEN input_width ELSE X(j).crop_start],
        crop_x_end |-> [j \in Branches |-> IF empty(j) THEN 0 ELSE X(j).crop_end],
        crop_y_start |-> [j \in Branches |-> IF empty(j) THEN input_height ELSE Y(j).crop_start],
        crop_y_end |-> [j \in Branches |-> IF empty(j) THEN 0 ELSE Y(j).crop_end],
        resample_in_width |-> [j \in Branches |-> IF empty(j) THEN 0 ELSE X(j).resample_in],
        resample_in_height |-> [j \in Branches |-> IF empty(j) THEN 0 ELSE Y(j).resample_in],
        output_offset_x |-> [j \in Branches |-> IF empty(j) THEN 0 ELSE X(j).output_offset],
        output_offset_y |-> [j \in Branches |-> IF empty(j) THEN 0 ELSE Y(j).output_offset],
        output_width |-> [j \in Branches |-> IF empty(j) THEN 0 ELSE X(j).output_size],
        output_height |-> [j \in Branches |-> IF empty(j) THEN 0 ELSE Y(j).output_size],
        output_addr_offset |-> [j \in Branches |-> 0],
        output_addr_offset2 |-> [j \in Branches |-> 0],
        downscale_phase_x |-> [n \in PhaseIndex |->
            IF empty(BranchOf(n)) \/ DOWNSCALE(BranchOf(n)) \notin rgb_enables THEN 0
            ELSE downscale_phase(X(BranchOf(n)).resample_offset,
                                 o.be_config_.downscale[BranchOf(n)].scale_factor_h)],
        downscale_phase_y |-> [n \in PhaseIndex |->
            IF empty(BranchOf(n)) \/ DOWNSCALE(BranchOf(n)) \notin rgb_enables THEN 0
            ELSE downscale_phase(Y(BranchOf(n)).resample_offset,
                                 o.be_config_.downscale[BranchOf(n)].scale_factor_v)],
        resample_phase_x |-> [n \in PhaseIndex |->
            IF empty(BranchOf(n)) \/ RESAMPLE(BranchOf(n)) \notin rgb_enables THEN 0
            ELSE resample_phase(X(BranchOf(n)).output_offset,
                                o.be_config_.resample[BranchOf(n)].scale_factor_h,
                                o.be_config_extra_.resample[BranchOf(n)].initial_phase_h[PlaneOf(n) + 1])],
        resample_phase_y |-> [n \in PhaseIndex |->
            IF empty(BranchOf(n)) \/ RESAMPLE(BranchOf(n)) \notin rgb_enables THEN 0
            ELSE resample_phase(Y(BranchOf(n)).output_offset,
                                o.be_config_.resample[BranchOf(n)].scale_factor_v,
                                o.be_config_extra_.resample[BranchOf(n)].initial_phase_v[PlaneOf(n) + 1])]]

PhaseAssert_Off(phase) == TRUE

\* "Have to be within this range, else some calculation went wrong."
PhaseAssert(phase) == phase <= 2 * UnityPhase - 1

\* "Phase difference between planes cannot be > 0.5 pixels on the output
\* dimenstions."
PhasesApart(phase, j, scale_factor) ==
    LET phase_max == ((scale_factor * UnityPhase) \div 2) \div UnityScale
        at(p) == phase[p * PISP_BACK_END_NUM_OUTPUTS + j]
    IN \/ abs(at(0) - at(1)) > phase_max
       \/ abs(at(1) - at(2)) > phase_max
       \/ abs(at(0) - at(2)) > phase_max

\* what the conversion of tile t ends with in branch j: "" when it passes
BranchPhaseError(o, tx, ty, t, j) ==
    IF NoOutput(o, tx, ty, j) \/ RESAMPLE(j) \notin o.be_config_.global.rgb_enables THEN ""
    ELSE IF \E n \in PhaseIndex :
                BranchOf(n) = j /\ ~(PhaseAssert(t.resample_phase_x[n]) /\ PhaseAssert(t.resample_phase_y[n]))
    THEN "assert"
    ELSE IF PhasesApart(t.resample_phase_x, j, o.be_config_.resample[j].scale_factor_h)
            \/ PhasesApart(t.resample_phase_y, j, o.be_config_.resample[j].scale_factor_v)
    THEN "runtime_error"
    ELSE ""

RECURSIVE TileError(_, _, _, _, _)
TileError(o, tx, ty, t, j) ==
    IF j >= PISP_BACK_END_NUM_OUTPUTS THEN ""
    ELSE IF BranchPhaseError(o, tx, ty, t, j) # "" THEN BranchPhaseError(o, tx, ty, t, j)
    ELSE TileError(o, tx, ty, t, j + 1)

\* "tiling error in Bayer pipe": the tile's input stage reads and delivers
\* different intervals
BayerPipeError(tx, ty) ==
    \/ tx[InputId].output # tx[InputId].input
    \/ ty[InputId].output # ty[InputId].input

\* the tile_array retilePipeline returns: row by row, nx tiles a row
ConvertTiles(o, tiles_x, tiles_y) ==
    LET nx == Len(tiles_x)
        ny == Len(tiles_y)
    IN [k \in 1 .. nx * ny |->
            ConvertTile(o, tiles_x[((k - 1) % nx) + 1], tiles_y[((k - 1) \div nx) + 1], k - 1, nx, ny)]

\* what retilePipeline's loop over the tiles ends with: the failure of the
\* first tile that fails, "" when every tile is converted
RECURSIVE ConvertError(_, _, _, _)
ConvertError(o, tiles_x, tiles_y, k) ==
    LET nx == Len(tiles_x)
        tx == tiles_x[((k - 1) % nx) + 1]
        ty == tiles_y[((k - 1) \div nx) + 1]
        e == IF BayerPipeError(tx, ty) THEN "runtime_error"
             ELSE TileError(o, tx, ty, ConvertTile(o, tx, ty, k - 1, nx, Len(tiles_y)), 0)
    IN IF k > nx * Len(tiles_y) THEN ""
       ELSE IF e # "" THEN e
       ELSE ConvertError(o, tiles_x, tiles_y, k + 1)

\* ------------------------------------------------------------------------
\* check_tiles: the exception it ends with ("" when every tile passes)
\* ------------------------------------------------------------------------
\* width_after_crop and height_after_crop are unsigned int: a negative
\* difference wraps to a value near 2^32, which is neither zero nor below
\* a minimum size
Below(v, limit) == v >= 0 /\ v < limit

CheckBranch(t, i, tiling_config) ==
    LET width_after_crop == t.input_width - t.crop_x_start[i] - t.crop_x_end[i]
        height_after_crop == t.input_height - t.crop_y_start[i] - t.crop_y_end[i]
        rh_edge == t.output_offset_x[i] + t.output_width[i] = tiling_config.output_image_size[i].x
    IN IF (width_after_crop * height_after_crop = 0) # (t.output_width[i] * t.output_height[i] = 0)
       THEN "assert"
       ELSE IF width_after_crop = 0 \/ height_after_crop = 0 THEN ""
       ELSE IF Below(width_after_crop, PISP_BACK_END_MIN_TILE_WIDTH) /\ ~rh_edge THEN "runtime_error"
       ELSE IF Below(height_after_crop, PISP_BACK_END_MIN_TILE_HEIGHT) THEN "runtime_error"
       ELSE IF t.resample_in_width[i] < PISP_BACK_END_MIN_TILE_WIDTH /\ ~rh_edge THEN "runtime_error"
       ELSE IF t.resample_in_height[i] < PISP_BACK_END_MIN_TILE_HEIGHT THEN "runtime_error"
       ELSE IF ~rh_edge /\ t.output_width[i] < PISP_BACK_END_MIN_TILE_WIDTH THEN "runtime_error"
       ELSE IF t.output_height[i] < PISP_BACK_END_MIN_TILE_HEIGHT THEN "runtime_error"
       ELSE ""

RECURSIVE CheckBranches(_, _, _, _)
CheckBranches(t, i, rgb_enables, tiling_config) ==
    IF i >= PISP_BACK_END_NUM_OUTPUTS THEN ""
    ELSE LET e == IF OUTPUT(i) \in rgb_enables THEN CheckBranch(t, i, tiling_config) ELSE ""
         IN IF e # "" THEN e ELSE CheckBranches(t, i + 1, rgb_enables, tiling_config)

CheckTile(t, rgb_enables, tiling_config) ==
    IF t.input_width = 0 \/ t.input_height = 0 THEN "assert"
    ELSE IF t.input_width < PISP_BACK_END_MIN_TILE_WIDTH \/ t.input_height < PISP_BACK_END_MIN_TILE_HEIGHT
    THEN "runtime_error"
    ELSE CheckBranches(t, 0, rgb_enables, tiling_config)

RECURSIVE CheckFrom(_, _, _, _)
CheckFrom(tiles, k, rgb_enables, tiling_config) ==
    IF k > Len(tiles) THEN ""
    ELSE LET e == CheckTile(tiles[k], rgb_enables, tiling_config)
         IN IF e # "" THEN e ELSE CheckFrom(tiles, k + 1, rgb_enables, tiling_config)

check_tiles_none(tiles, rgb_enables, tiling_config) == ""

check_tiles(tiles, rgb_enables, tiling_config) == CheckFrom(tiles, 1, rgb_enables, tiling_config)

\* ------------------------------------------------------------------------
\* finaliseTiling: address offsets, grid offsets and the flips, written
\* into tiles_ in place
\* ------------------------------------------------------------------------
\* calculate_input_addr_offset without an addr_offset2: the first offset
calculate_input_addr_offset(x, y, input_format) == compute_addr_offset(input_format, x, y)[1]

FinaliseTile(o, t) ==
    LET c == o.be_config_
        input_addr == compute_addr_offset(c.input_format, t.input_offset_x, t.input_offset_y)
        aux_addr(format) == calculate_input_addr_offset(t.input_offset_x, t.input_offset_y, format)
        flipped_x(j) == IF "HFLIP" \in c.output_format[j].transform
                        THEN (c.output_format[j].image.width - t.output_offset_x[j] - t.output_width[j]) % U16
                        ELSE t.output_offset_x[j]
        flipped_y(j) == IF "VFLIP" \in c.output_format[j].transform
                        THEN (c.output_format[j].image.height - t.output_offset_y[j] - 1) % U16
                        ELSE t.output_offset_y[j]
        output_addr(j) == compute_addr_offset(c.output_format[j].image, flipped_x(j), flipped_y(j))
    IN [t EXCEPT !.input_addr_offset = input_addr[1],
                 !.input_addr_offset2 = input_addr[2],
                 !.tdn_input_addr_offset = aux_addr(c.tdn_input_format),
                 !.tdn_output_addr_offset = aux_addr(c.tdn_output_format),
                 !.stitch_input_addr_offset = aux_addr(c.stitch_input_format),
                 !.stitch_output_addr_offset = aux_addr(c.stitch_output_format),
                 !.lsc_grid_offset_x = IF "LSC" \in c.global.bayer_enables
                     THEN (t.input_offset_x + o.be_config_extra_.lsc.offset_x) * c.lsc.grid_step_x
                     ELSE @,
                 !.lsc_grid_offset_y = IF "LSC" \in c.global.bayer_enables
                     THEN (t.input_offset_y + o.be_config_extra_.lsc.offset_y) * c.lsc.grid_step_y
                     ELSE @,
                 !.output_offset_x = [j \in Branches |-> flipped_x(j)],
                 !.output_offset_y = [j \in Branches |-> flipped_y(j)],
                 !.output_addr_offset = [j \in Branches |-> output_addr(j)[1]],
                 !.output_addr_offset2 = [j \in Branches |-> output_addr(j)[2]]]

finaliseTiling(o, tiles) == [k \in 1 .. Len(tiles) |-> FinaliseTile(o, tiles[k])]

\* ------------------------------------------------------------------------
\* The setters of BackEnd: each stores its block, marks it dirty and, for
\* a block that affects the geometry, asks for the tiles to be recomputed
\* ------------------------------------------------------------------------
SetGlobal(o, global) ==
    [o EXCEPT !.be_config_.global = global,
              !.be_config_extra_.dirty_flags_extra = @ \cup {"GLOBAL"},
              !.retile_ = @ \/ global # o.be_config_.global]

SetInputFormat(o, input_format) ==
    [o EXCEPT !.be_config_.input_format = input_format,
              !.be_config_extra_.dirty_flags_bayer = @ \cup {"INPUT"},
              !.retile_ = TRUE]

SetCrop(o, i, crop) ==
    [o EXCEPT !.be_config_extra_.crop[i] = crop,
              !.be_config_extra_.dirty_flags_extra = @ \cup {"CROP"},
              !.retile_ = TRUE]

SetOutputFormat(o, i, output_format) ==
    [o EXCEPT !.be_config_.output_format[i] = output_format,
              !.be_config_extra_.dirty_flags_rgb = @ \cup {OUTPUT(i)},
              !.retile_ = TRUE]

SetSmartResize(o, i, smart_resize) ==
    [o EXCEPT !.smart_resize_[i] = smart_resize,
              !.smart_resize_dirty_ = @ \cup {i},
              !.retile_ = TRUE]

SetTdn(o, tdn) ==
    [o EXCEPT !.be_config_.tdn = tdn,
              !.be_config_extra_.dirty_flags_bayer = @ \cup {"TDN"}]

\* the addresses of the TDN and stitch images are composed with the tiles
SetTdnInputFormat(o, tdn_input_format) ==
    [o EXCEPT !.be_config_.tdn_input_format = tdn_input_format,
              !.be_config_extra_.dirty_flags_bayer = @ \cup {"TDN_INPUT"},
              !.finalise_tiling_ = TRUE]

SetTdnOutputFormat(o, tdn_output_format) ==
    [o EXCEPT !.be_config_.tdn_output_format = tdn_output_format,
              !.be_config_extra_.dirty_flags_bayer = @ \cup {"TDN_OUTPUT"},
              !.finalise_tiling_ = TRUE]

SetStitchInputFormat(o, stitch_input_format) ==
    [o EXCEPT !.be_config_.stitch_input_format = stitch_input_format,
              !.be_config_extra_.dirty_flags_bayer = @ \cup {"STITCH_INPUT"},
              !.finalise_tiling_ = TRUE]

SetStitchOutputFormat(o, stitch_output_format) ==
    [o EXCEPT !.be_config_.stitch_output_format = stitch_output_format,
              !.be_config_extra_.dirty_flags_bayer = @ \cup {"STITCH_OUTPUT"},
              !.finalise_tiling_ = TRUE]

\* a new shading grid does not move the tiles, but their grid offsets must
\* be composed again
SetLsc(o, lsc, lsc_extra) ==
    [o EXCEPT !.be_config_.lsc = lsc,
              !.be_config_extra_.lsc = lsc_extra,
              !.be_config_extra_.dirty_flags_bayer = @ \cup {"LSC"},
              !.finalise_tiling_ = @ \/ lsc # o.be_config_.lsc \/ lsc_extra # o.be_config_extra_.lsc]

\* ------------------------------------------------------------------------
\* A BackEnd after construction, and after the calls that configure it
\* ------------------------------------------------------------------------
ZeroFormat == Format(8, FALSE, "INTERLEAVED", "444")
ImageFormat(width, height, format, stride) ==
    [width |-> width, height |-> height, format |-> format, stride |-> stride, stride2 |-> 0]
NoCrop == [offset_x |-> 0, offset_y |-> 0, width |-> 0, height |-> 0]
NoSize == [scaled_width |-> 0, scaled_height |-> 0]
NoSmartResize == [width |-> 0, height |-> 0]

Constructed ==
    [be_config_ |->
        [global |-> [bayer_enables |-> {}, rgb_enables |-> {}],
         input_format |-> ImageFormat(0, 0, ZeroFormat, 0),
         tdn_input_format |-> ImageFormat(0, 0, ZeroFormat, 0),
         tdn_output_format |-> ImageFormat(0, 0, ZeroFormat, 0),
         stitch_input_format |-> ImageFormat(0, 0, ZeroFormat, 0),
         stitch_output_format |-> ImageFormat(0, 0, ZeroFormat, 0),
         tdn |-> [reset |-> FALSE],
         stitch |-> [motion_threshold_256 |-> 0, motion_threshold_recip |-> 0],
         output_format |-> [i \in Branches |-> [image |-> ImageFormat(0, 0, ZeroFormat, 0), transform |-> {}]],
         downscale |-> [i \in Branches |-> [scale_factor_h |-> 0, scale_factor_v |-> 0,
                                            scale_recip_h |-> 0, scale_recip_v |-> 0]],
         resample |-> [i \in Branches |-> [scale_factor_h |-> 0, scale_factor_v |-> 0]],
         lsc |-> [grid_step_x |-> 0, grid_step_y |-> 0]],
     be_config_extra_ |->
        [lsc |-> [offset_x |-> 0, offset_y |-> 0],
         downscale |-> [i \in Branches |-> NoSize],
         resample |-> [i \in Branches |-> ResampleExtra(0, 0, ZeroPhases, ZeroPhases)],
         crop |-> [i \in Branches |-> NoCrop],
         dirty_flags_bayer |-> {}, dirty_flags_rgb |-> {}, dirty_flags_extra |-> {}],
     smart_resize_ |-> [i \in Branches |-> NoSmartResize],
     smart_resize_dirty_ |-> {},
     retile_ |-> TRUE,
     finalise_tiling_ |-> TRUE,
     err |-> ""]

FMT_BAYER16 == Format(16, FALSE, "INTERLEAVED", "444")
FMT_RGB888 == Format(8, TRUE, "INTERLEAVED", "444")
FMT_YUV420P == Format(8, TRUE, "PLANAR", "420")

\* A use case: the input image, the tile limits of config_, and for each
\* branch whether its output is on, its format and transform, its crop,
\* downscale and resample targets and its smart-resize request (zero
\* sizes for the ones not asked for).
Branch(on, format, transform, crop, down, res, smart) ==
    [on |-> on, format |-> format, transform |-> transform, crop |-> crop,
     down |-> down, res |-> res, smart |-> smart]
BranchOff == Branch(FALSE, ZeroFormat, {}, NoCrop, NoSize, NoSize, NoSmartResize)
CropOf(x, y, w, h) == [offset_x |-> x, offset_y |-> y, width |-> w, height |-> h]
SizeOf(w, h) == [scaled_width |-> w, scaled_height |-> h]
\* a resample target given as a size alone has initial phases of zero
WithPhases(res) ==
    IF "initial_phase_h" \in DOMAIN res THEN res
    ELSE ResampleExtra(res.scaled_width, res.scaled_height, ZeroPhases, ZeroPhases)
UseCase(W, H, mtw, msh, b0, b1) ==
    [W |-> W, H |-> H, max_tile_width |-> mtw, max_stripe_height |-> msh, br |-> <<b0, b1>>]

EnablesOf(u) ==
    [bayer_enables |-> {"INPUT"},
     rgb_enables |-> UNION {(IF u.br[i + 1].on THEN {OUTPUT(i)} ELSE {})
                            \cup (IF u.br[i + 1].down # NoSize THEN {DOWNSCALE(i)} ELSE {})
                            \cup (IF u.br[i + 1].res # NoSize THEN {RESAMPLE(i)} ELSE {}) : i \in Branches}]

\* the setter calls that configure branch i for use case u
ConfigureBranch(o, u, i) ==
    LET b == u.br[i + 1]
        o1 == SetOutputFormat(o, i, [image |-> ImageFormat(0, 0, b.format, 0), transform |-> b.transform])
        o2 == IF b.crop # NoCrop THEN SetCrop(o1, i, b.crop) ELSE o1
        o3 == IF b.down # NoSize THEN SetDownscaleExtra(o2, i, b.down) ELSE o2
        o4 == IF b.res # NoSize THEN SetResampleExtra(o3, i, WithPhases(b.res)) ELSE o3
        o5 == IF b.smart # NoSmartResize THEN SetSmartResize(o4, i, b.smart) ELSE o4
    IN IF b.on THEN o5 ELSE o

Configure(u) ==
    LET o1 == SetGlobal(Constructed, EnablesOf(u))
        o2 == SetInputFormat(o1, ImageFormat(u.W, u.H, FMT_BAYER16, AlignUp(2 * u.W, 16)))
    IN ConfigureBranch(ConfigureBranch(o2, u, 0), u, 1)

\* ------------------------------------------------------------------------
\* State
\* ------------------------------------------------------------------------
VARIABLES
    config_,              \* BackEnd::Config: max_tile_width, max_stripe_height
    be_config_, be_config_extra_, smart_resize_, smart_resize_dirty_,
    retile_, finalise_tiling_, tiles_, num_tiles_x_, num_tiles_y_,
    pc,                   \* where the Prepare in progress is: "idle" when none
    config,               \* Prepare's argument: "null" or "buffer"
    tiling_config,        \* the TilingConfig of the retile in progress
    stages,               \* the stages of the pipeline being tiled
    x_tiles, y_tiles,     \* the regions tileDirection has copied out so far
    hw,                   \* the caller's pisp_be_tiles_config buffer
    result,               \* how the last Prepare ended: "ok" or its exception
    plan_,                \* history: the tile array retilePipeline returned
    hist,                 \* history: what happened since the previous Prepare
    calls                 \* number of calls made on the BackEnd

beVars == <<config_, be_config_, be_config_extra_, smart_resize_, smart_resize_dirty_,
            retile_, finalise_tiling_, tiles_, num_tiles_x_, num_tiles_y_,
            pc, config, tiling_config, stages, x_tiles, y_tiles, hw, result, plan_, hist, calls>>

\* number of setter and Prepare calls explored
MaxCalls == 3

Obj == [be_config_ |-> be_config_, be_config_extra_ |-> be_config_extra_,
        smart_resize_ |-> smart_resize_, smart_resize_dirty_ |-> smart_resize_dirty_,
        retile_ |-> retile_, finalise_tiling_ |-> finalise_tiling_, err |-> ""]

Store(o) ==
    /\ be_config_' = o.be_config_
    /\ be_config_extra_' = o.be_config_extra_
    /\ smart_resize_' = o.smart_resize_
    /\ smart_resize_dirty_' = o.smart_resize_dirty_
    /\ retile_' = o.retile_
    /\ finalise_tiling_' = o.finalise_tiling_

\* plan: history, the tile array retilePipeline had returned for these tiles
NoBuffer == [num_tiles |-> 0, tiles |-> <<>>, config |-> Constructed.be_config_, written |-> FALSE,
             plan |-> <<>>]
\* what the calls have done since the previous Prepare (set: a setter of a
\* geometry block was called; diff: one of them stored a new value) and what
\* the Prepare in progress found (changed, differed) and did (retiled)
\* caller: the dirty bits the caller's setters have raised since the last
\* Prepare that ended well; pending: the same since the last one that ended
\* well and was given a buffer
\* loaded: SetJsonConfig was called since the previous Prepare
\* aborted: the previous Prepare threw an exception while it was tiling (a
\* failed assertion is no exception), and no setter has been called since
NoHistory == [set |-> TRUE, diff |-> TRUE, changed |-> FALSE, differed |-> FALSE,
              retiled |-> FALSE, prepares |-> 0, prev |-> <<>>, before |-> <<>>,
              caller |-> {}, pending |-> {}, entry |-> Constructed,
              loaded |-> FALSE, wasloaded |-> FALSE, aborted |-> FALSE, wasaborted |-> FALSE]

\* the dirty bits of the three words, each with the word it is in
DirtyFlags(o) ==
    ({"bayer"} \X o.be_config_extra_.dirty_flags_bayer)
        \cup ({"rgb"} \X o.be_config_extra_.dirty_flags_rgb)
        \cup ({"extra"} \X o.be_config_extra_.dirty_flags_extra)

\* the blocks the tile geometry depends on
GeometryBlocks(o) ==
    <<o.be_config_.input_format, o.be_config_extra_.crop, o.be_config_.output_format,
      o.be_config_extra_.downscale, o.be_config_extra_.resample, o.smart_resize_,
      o.be_config_.global>>

\* the fields of a tile that only retilePipeline writes
Geometry(t) ==
    [input |-> <<t.input_offset_x, t.input_offset_y, t.input_width, t.input_height>>,
     crop |-> <<t.crop_x_start, t.crop_x_end, t.crop_y_start, t.crop_y_end>>,
     resample_in |-> <<t.resample_in_width, t.resample_in_height>>,
     output |-> <<t.output_width, t.output_height>>,
     phases |-> <<t.downscale_phase_x, t.downscale_phase_y, t.resample_phase_x, t.resample_phase_y>>]
Geometries(tiles) == [k \in 1 .. Len(tiles) |-> Geometry(tiles[k])]

\* a BackEnd constructed with the tile limits c and then configured to o
InitWith(o, c) ==
    /\ config_ = c
    /\ be_config_ = o.be_config_
    /\ be_config_extra_ = o.be_config_extra_
    /\ smart_resize_ = o.smart_resize_
    /\ smart_resize_dirty_ = o.smart_resize_dirty_
    /\ retile_ = TRUE
    /\ finalise_tiling_ = TRUE
    /\ tiles_ = <<>>
    /\ num_tiles_x_ = 0
    /\ num_tiles_y_ = 0
    /\ pc = "idle"
    /\ config = "null"
    /\ tiling_config = MakeTilingConfig(Constructed, [max_tile_width |-> 0, max_stripe_height |-> 0])
    /\ stages = InitStages
    /\ x_tiles = <<>>
    /\ y_tiles = <<>>
    /\ hw = NoBuffer
    /\ result = ""
    /\ plan_ = <<>>
    /\ hist = [NoHistory EXCEPT !.caller = DirtyFlags(o), !.pending = DirtyFlags(o)]
    /\ calls = 0

InitFor(u) ==
    InitWith(Configure(u), [max_tile_width |-> u.max_tile_width, max_stripe_height |-> u.max_stripe_height])

\* ------------------------------------------------------------------------
\* Prepare, in the steps it goes through
\* ------------------------------------------------------------------------
NeedsRetile_Never(o) == FALSE

\* updateTiles tiles again when retile_ is set
NeedsRetile(o) == o.retile_

\* the call ends with exception e: what it had stored by then stays
Fails(e) ==
    /\ pc' = "idle"
    /\ result' = e

\* what a build can make of an error: an integer division by zero is
\* undefined, it traps on one machine ("SIGFPE") and gives a quotient of
\* zero on another, which the range check that follows then refuses
Outcomes(e) == IF e = "division_by_zero" THEN {"SIGFPE", "runtime_error"} ELSE {e}

\* Prepare(config) up to the start of the tiling: the input checks, the
\* output image formats, updateSmartResize, finaliseConfig, and the
\* beginning of updateTiles
Prepare(cfg) ==
    /\ pc = "idle"
    /\ result # "SIGFPE"
    /\ calls < MaxCalls
    /\ \E o \in {PrepareConfig(Obj)} :
          /\ Store([o EXCEPT !.retile_ = IF o.err = "" THEN FALSE ELSE @])
          /\ IF o.err # "" THEN (\E e \in Outcomes(o.err) : Fails(e)) /\ UNCHANGED tiling_config
             ELSE /\ result' = ""
                  /\ pc' = IF NeedsRetile(o) THEN "tile_x" ELSE "finalise"
                  /\ tiling_config' = IF NeedsRetile(o) THEN MakeTilingConfig(o, config_)
                                      ELSE tiling_config
    /\ config' = cfg
    /\ stages' = InitStages
    /\ x_tiles' = <<>>
    /\ y_tiles' = <<>>
    /\ hist' = [hist EXCEPT !.set = FALSE, !.diff = FALSE, !.changed = hist.set,
                            !.differed = hist.diff, !.retiled = FALSE,
                            !.prepares = @ + 1, !.prev = tiles_, !.before = Geometries(tiles_),
                            !.entry = Obj, !.loaded = FALSE, !.wasloaded = hist.loaded,
                            !.aborted = FALSE, !.wasaborted = hist.aborted]
    /\ calls' = calls + 1
    /\ UNCHANGED <<config_, tiles_, num_tiles_x_, num_tiles_y_, hw, plan_>>

TileArrayCapacity_Doubled == 2 * PISP_BACK_END_NUM_TILES

\* retilePipeline gives tile_pipeline an array of PISP_BACK_END_NUM_TILES
\* tiles and that number for its capacity
TileArrayCapacity == PISP_BACK_END_NUM_TILES
\* Pipeline::tileDirection gives up when its array is full
TooManyTiles(n) == n >= TileArrayCapacity
\* Pipeline::Tile gives up when the grid does not fit the caller's array
GridTooBig(nx, ny) == nx * ny > TileArrayCapacity

\* one iteration of the loop of Pipeline::tileDirection, along x and then y
TileStep ==
    /\ pc \in {"tile_x", "tile_y"}
    /\ \E d \in {IF pc = "tile_x" THEN "x" ELSE "y"} :
       \E S \in {TileIteration(stages, tiling_config, d)} :
       LET done == IF d = "x" THEN x_tiles ELSE y_tiles
       IN IF TooManyTiles(Len(done))
          THEN /\ Fails("runtime_error")
               /\ hist' = [hist EXCEPT !.aborted = TRUE]
               /\ UNCHANGED <<stages, x_tiles, y_tiles>>
          ELSE IF S.err # ""
          THEN /\ Fails(S.err)
               /\ hist' = [hist EXCEPT !.aborted = (S.err # "assert")]
               /\ stages' = [stages EXCEPT !.split = S.split, !.ends = S.ends, !.crops = S.crops,
                                            !.err = S.err]
               /\ UNCHANGED <<x_tiles, y_tiles>>
          ELSE /\ x_tiles' = IF d = "x" THEN Append(x_tiles, S.reg) ELSE x_tiles
               /\ y_tiles' = IF d = "y" THEN Append(y_tiles, S.reg) ELSE y_tiles
               /\ stages' = IF AllDone(S, tiling_config, d)
                            THEN [InitStages EXCEPT !.split = S.split, !.ends = S.ends, !.crops = S.crops]
                            ELSE S
               /\ pc' = IF ~AllDone(S, tiling_config, d) THEN pc
                        ELSE IF d = "x" THEN "tile_y" ELSE "convert"
               /\ UNCHANGED <<result, hist>>
    /\ UNCHANGED <<config_, be_config_, be_config_extra_, smart_resize_, smart_resize_dirty_,
                   retile_, finalise_tiling_, tiles_, num_tiles_x_, num_tiles_y_,
                   config, tiling_config, hw, plan_, calls>>

\* the rest of retilePipeline and of the retile branch of updateTiles: the
\* grid check of Pipeline::Tile, the conversion, check_tiles
RetilePipelineFinish ==
    /\ pc = "convert"
    /\ LET nx == Len(x_tiles)
           ny == Len(y_tiles)
           tile_array == ConvertTiles(Obj, x_tiles, y_tiles)
           ce == ConvertError(Obj, x_tiles, y_tiles, 1)
           e == check_tiles(tile_array, be_config_.global.rgb_enables, tiling_config)
       IN IF GridTooBig(nx, ny)
          THEN /\ Fails("runtime_error")
               /\ hist' = [hist EXCEPT !.aborted = TRUE]
               /\ UNCHANGED <<tiles_, num_tiles_x_, num_tiles_y_, finalise_tiling_, plan_>>
          ELSE /\ num_tiles_x_' = nx
               /\ num_tiles_y_' = ny
               /\ IF ce # ""
                  THEN /\ Fails(ce)
                       /\ hist' = [hist EXCEPT !.aborted = (ce # "assert")]
                       /\ UNCHANGED <<tiles_, finalise_tiling_, plan_>>
                  ELSE /\ tiles_' = tile_array
                       /\ plan_' = tile_array
                       /\ hist' = [hist EXCEPT !.retiled = TRUE, !.aborted = (e \notin {"", "assert"})]
                       /\ IF e # "" THEN Fails(e) /\ UNCHANGED finalise_tiling_
                          ELSE finalise_tiling_' = TRUE /\ pc' = "finalise" /\ UNCHANGED result
    /\ UNCHANGED <<config_, be_config_, be_config_extra_, smart_resize_, smart_resize_dirty_, retile_,
                   config, tiling_config, stages, x_tiles, y_tiles, hw, calls>>

ClearDirtyFlags_Keep(extra) == extra

\* Prepare, step 5: the three dirty words are set to 0
ClearDirtyFlags(extra) ==
    [extra EXCEPT !.dirty_flags_bayer = {}, !.dirty_flags_rgb = {}, !.dirty_flags_extra = {}]

\* the end of updateTiles and of Prepare: finaliseTiling when asked for,
\* then the copy into the caller's buffer and the clearing of the dirty flags
PrepareFinish ==
    /\ pc = "finalise"
    /\ LET n == num_tiles_x_ * num_tiles_y_
           final == IF finalise_tiling_ THEN finaliseTiling(Obj, tiles_) ELSE tiles_
       IN /\ tiles_' = final
          /\ finalise_tiling_' = FALSE
          /\ IF config = "buffer"
             THEN /\ hw' = [num_tiles |-> n, tiles |-> SubSeq(final, 1, n), config |-> be_config_,
                           written |-> TRUE, plan |-> SubSeq(plan_, 1, n)]
                  /\ be_config_extra_' = ClearDirtyFlags(be_config_extra_)
             ELSE UNCHANGED <<hw, be_config_extra_>>
    /\ hist' = [hist EXCEPT !.caller = {}, !.pending = IF config = "buffer" THEN {} ELSE @]
    /\ pc' = "idle"
    /\ result' = "ok"
    /\ UNCHANGED <<config_, be_config_, smart_resize_, smart_resize_dirty_, retile_,
                   num_tiles_x_, num_tiles_y_, config, tiling_config, stages, x_tiles, y_tiles,
                   plan_, calls>>

\* ------------------------------------------------------------------------
\* The setters, as calls on the BackEnd
\* ------------------------------------------------------------------------
\* a setter call stores what the setter wrote; a setter of a geometry block
\* is remembered until the next Prepare
SetterCall(o, geometry) ==
    /\ pc = "idle"
    /\ result # "SIGFPE"
    /\ calls < MaxCalls
    /\ Store(o)
    /\ hist' = [hist EXCEPT !.set = @ \/ geometry,
                            !.diff = @ \/ (geometry /\ GeometryBlocks(o) # GeometryBlocks(Obj)),
                            !.caller = @ \cup (DirtyFlags(o) \ DirtyFlags(Obj)),
                            !.pending = @ \cup (DirtyFlags(o) \ DirtyFlags(Obj)),
                            !.aborted = FALSE]
    /\ calls' = calls + 1
    /\ UNCHANGED <<config_, tiles_, num_tiles_x_, num_tiles_y_, pc, config, tiling_config,
                   stages, x_tiles, y_tiles, hw, result, plan_>>

EnabledOutputs == {i \in Branches : OUTPUT(i) \in be_config_.global.rgb_enables}

CallSetCrop ==
    \E i \in EnabledOutputs :
        SetterCall(SetCrop(Obj, i, CropOf(16, 0, be_config_.input_format.width - 32,
                                          be_config_.input_format.height)), TRUE)

CallSetOutputFormat ==
    \E i \in EnabledOutputs, transform \in {{}, {"HFLIP", "VFLIP"}} :
        SetterCall(SetOutputFormat(Obj, i,
                       [image |-> ImageFormat(0, 0, be_config_.output_format[i].image.format, 0),
                        transform |-> transform]), TRUE)

CallSetSmartResize ==
    \E i \in EnabledOutputs :
        SetterCall(SetSmartResize(Obj, i, [width |-> be_config_.input_format.width \div 2,
                                           height |-> be_config_.input_format.height \div 2]), TRUE)

CallSetGlobal ==
    LET global == [be_config_.global EXCEPT !.bayer_enables = @ \cup {"LSC"}]
    IN SetterCall(SetGlobal(Obj, global), global # be_config_.global)

CallSetLsc ==
    SetterCall(SetLsc(Obj, [grid_step_x |-> 1024, grid_step_y |-> 1024],
                      [offset_x |-> 2, offset_y |-> 2]), FALSE)

CallPrepare == \E cfg \in {"null", "buffer"} : Prepare(cfg)

BackEnd_SetJsonConfig_KeepFlags(o, c) == [o EXCEPT !.be_config_ = c]

\* BackEnd::SetJsonConfig of a document that holds the configuration record
\* c: every field of the catalogue is written into be_config_, the three
\* dirty words are cleared and a retile is asked for
BackEnd_SetJsonConfig(o, c) ==
    [o EXCEPT !.be_config_ = c,
              !.be_config_extra_.dirty_flags_bayer = {},
              !.be_config_extra_.dirty_flags_rgb = {},
              !.be_config_extra_.dirty_flags_extra = {},
              !.retile_ = TRUE]

\* the records loaded: the one the BackEnd holds, the one the last Prepare
\* wrote for the hardware, and the one of a BackEnd just configured
JsonConfigs ==
    {be_config_} \cup (IF hw.written THEN {hw.config} ELSE {})
        \cup {Configure(UseCase(128, 64, 64, 0, BranchOff,
                Branch(TRUE, FMT_RGB888, {"HFLIP"}, NoCrop, NoSize, NoSize, NoSmartResize))).be_config_}

CallSetJsonConfig ==
    \E c \in JsonConfigs :
        LET o == BackEnd_SetJsonConfig(Obj, c)
        IN /\ pc = "idle"
           /\ result # "SIGFPE"
           /\ calls < MaxCalls
           /\ Store(o)
           /\ hist' = [hist EXCEPT !.set = TRUE,
                                   !.diff = @ \/ GeometryBlocks(o) # GeometryBlocks(Obj),
                                   !.caller = {}, !.pending = {}, !.loaded = TRUE, !.aborted = FALSE]
           /\ calls' = calls + 1
           /\ UNCHANGED <<config_, tiles_, num_tiles_x_, num_tiles_y_, pc, config, tiling_config,
                          stages, x_tiles, y_tiles, hw, result, plan_>>

\* ------------------------------------------------------------------------
\* The configurations explored
\* ------------------------------------------------------------------------
\* number of input widths beyond the narrowest
WidthSteps == 2
Widths == {128 + 88 * k : k \in 0 .. WidthSteps}
Heights == {64, 128}
TileWidths == {64, 128, 0}
StripeHeights == {0, 48}

Rgb(transform, crop) == Branch(TRUE, FMT_RGB888, transform, crop, NoSize, NoSize, NoSmartResize)
Yuv(transform) == Branch(TRUE, FMT_YUV420P, transform, NoCrop, NoSize, NoSize, NoSmartResize)
Resampled(w, h) == Branch(TRUE, FMT_RGB888, {}, NoCrop, NoSize, SizeOf(w, h), NoSmartResize)
Downscaled(w, h) == Branch(TRUE, FMT_RGB888, {}, NoCrop, SizeOf(w, h), NoSize, NoSmartResize)
SmartResized(w, h) ==
    Branch(TRUE, FMT_RGB888, {}, NoCrop, NoSize, NoSize, [width |-> w, height |-> h])
\* a downscale the caller set, and a smart resize to w by h on top of it
Restretched(dw, dh, w, h) ==
    Branch(TRUE, FMT_RGB888, {}, NoCrop, SizeOf(dw, dh), NoSize, [width |-> w, height |-> h])

BranchSetups(W, H) ==
    { <<Rgb({}, NoCrop), BranchOff>>,
      <<Rgb({"HFLIP"}, CropOf(16, 8, W - 48, H - 16)), BranchOff>>,
      <<Rgb({}, CropOf(0, 0, 180, H)), BranchOff>>,
      <<Yuv({"VFLIP"}), BranchOff>>,
      <<Resampled((3 * W) \div 4, H), BranchOff>>,
      <<BranchOff, Downscaled(W \div 2, H \div 4)>>,
      <<BranchOff, SmartResized(W \div 4, H \div 4)>>,
      <<Rgb({}, NoCrop), Rgb({}, CropOf(32, 0, 128, H))>>,
      <<Rgb({}, NoCrop), Downscaled(W \div 2, H \div 2)>>,
      <<BranchOff, Restretched(W \div 2, H \div 2, 17 * W, H)>>,
      <<BranchOff, BranchOff>> }

TilingCases ==
    UNION { { UseCase(W, H, mtw, msh, s[1], s[2]) : s \in BranchSetups(W, H) } :
            W \in Widths, H \in Heights, mtw \in TileWidths, msh \in StripeHeights }

LifeCases ==
    { UseCase(128, 64, 64, 0, Rgb({}, NoCrop), BranchOff),
      UseCase(128, 64, 64, 0, BranchOff, Rgb({"HFLIP"}, CropOf(16, 0, 96, 64))) }

\* ------------------------------------------------------------------------
\* The tiles a Prepare emits
\* ------------------------------------------------------------------------
TileAt(tiles, k, r) == tiles[(r - 1) * num_tiles_x_ + k]
InputEndX(t) == t.input_offset_x + t.input_width
InputEndY(t) == t.input_offset_y + t.input_height
ProducesOutput(t, j) == t.output_width[j] > 0 /\ t.output_height[j] > 0
Columns == 1 .. num_tiles_x_
Rows == 1 .. num_tiles_y_

\* C1 as stated: along each axis the inputs of the emitted tiles partition
\* the input image: the first starts at 0, each next one starts where the
\* previous one ends, the last one ends at the input width (height)
C1_InputsPartitionImage ==
    hw.written =>
        \A k \in Columns, r \in Rows :
            LET t == TileAt(hw.tiles, k, r)
            IN /\ (k = 1 => t.input_offset_x = 0)
               /\ (k < num_tiles_x_ => TileAt(hw.tiles, k + 1, r).input_offset_x = InputEndX(t))
               /\ (k = num_tiles_x_ => InputEndX(t) = be_config_.input_format.width)
               /\ (r = 1 => t.input_offset_y = 0)
               /\ (r < num_tiles_y_ => TileAt(hw.tiles, k, r + 1).input_offset_y = InputEndY(t))
               /\ (r = num_tiles_y_ => InputEndY(t) = be_config_.input_format.height)

\* C1, amended: along each axis the inputs of the emitted tiles lie inside
\* the input image, advance from tile to tile without leaving a gap (they
\* may overlap), and together span the crop window of every enabled branch
C1_InputsCoverCrops ==
    hw.written =>
        /\ \A k \in Columns, r \in Rows :
            LET t == TileAt(hw.tiles, k, r)
            IN /\ InputEndX(t) <= be_config_.input_format.width
               /\ InputEndY(t) <= be_config_.input_format.height
               /\ k < num_tiles_x_ =>
                    LET n == TileAt(hw.tiles, k + 1, r)
                    IN n.input_offset_x <= InputEndX(t) /\ InputEndX(n) > InputEndX(t)
               /\ r < num_tiles_y_ =>
                    LET n == TileAt(hw.tiles, k, r + 1)
                    IN n.input_offset_y <= InputEndY(t) /\ InputEndY(n) > InputEndY(t)
        /\ \A j \in EnabledOutputs :
            /\ TileAt(hw.tiles, 1, 1).input_offset_x <= tiling_config.crop[j].x.offset
            /\ TileAt(hw.tiles, 1, 1).input_offset_y <= tiling_config.crop[j].y.offset
            /\ InputEndX(TileAt(hw.tiles, num_tiles_x_, 1)) >= End(tiling_config.crop[j].x)
            /\ InputEndY(TileAt(hw.tiles, 1, num_tiles_y_)) >= End(tiling_config.crop[j].y)

\* an emitted grid of several columns and rows whose neighbours overlap and
\* whose first column starts inside the image
C1_Witness ==
    /\ hw.written
    /\ num_tiles_x_ >= 3
    /\ num_tiles_y_ >= 2
    /\ TileAt(hw.tiles, 2, 1).input_offset_x < InputEndX(TileAt(hw.tiles, 1, 1))
    /\ TileAt(hw.tiles, 1, 2).input_offset_y < InputEndY(TileAt(hw.tiles, 1, 1))

\* the columns an emitted tile writes for branch j, and the rows: with VFLIP
\* output_offset_y is the row the tile's first line goes to, its other lines
\* go to the rows above it
OutputX(t, j) == <<t.output_offset_x[j], t.output_offset_x[j] + t.output_width[j]>>
OutputY(t, j) ==
    IF "VFLIP" \in be_config_.output_format[j].transform
    THEN <<t.output_offset_y[j] - t.output_height[j] + 1, t.output_offset_y[j] + 1>>
    ELSE <<t.output_offset_y[j], t.output_offset_y[j] + t.output_height[j]>>

\* the intervals iv[n], n in N, start at 0, follow each other without gap or
\* overlap, and end at size
Partitions(N, iv(_), size) ==
    /\ \A n \in N :
        /\ iv(n)[1] < iv(n)[2]
        /\ iv(n)[1] = 0 \/ \E m \in N : iv(m)[2] = iv(n)[1]
        /\ iv(n)[2] = size \/ \E m \in N : iv(m)[1] = iv(n)[2]
    /\ \A n, m \in N : n = m \/ iv(n)[2] <= iv(m)[1] \/ iv(m)[2] <= iv(n)[1]

\* C2: for every enabled branch, along each axis the outputs of the emitted
\* tiles start at 0, are contiguous and non-overlapping, and end at the
\* width (height) of the branch's output image
C2_OutputsPartitionImage ==
    hw.written =>
        \A j \in EnabledOutputs :
            /\ \E k \in Columns, r \in Rows : ProducesOutput(TileAt(hw.tiles, k, r), j)
            /\ \A r \in Rows :
                LET N == {k \in Columns : ProducesOutput(TileAt(hw.tiles, k, r), j)}
                    iv(k) == OutputX(TileAt(hw.tiles, k, r), j)
                IN Partitions(N, iv, be_config_.output_format[j].image.width)
            /\ \A k \in Columns :
                LET N == {r \in Rows : ProducesOutput(TileAt(hw.tiles, k, r), j)}
                    iv(r) == OutputY(TileAt(hw.tiles, k, r), j)
                IN Partitions(N, iv, be_config_.output_format[j].image.height)

\* two enabled branches written by a grid of several tiles
C2_Witness ==
    /\ hw.written
    /\ EnabledOutputs = Branches
    /\ num_tiles_x_ * num_tiles_y_ >= 4
    /\ \A j \in Branches : \E k \in Columns : k > 1 /\ ProducesOutput(TileAt(hw.tiles, k, 1), j)

\* a size is at least the minimum, or belongs to an edge tile and is not zero
SizeOk(v, minimum, edge) == v >= minimum \/ (edge /\ v >= 1)

\* C3: in every emitted tile, for every enabled branch with output in it,
\* the width and height after crop and after downscale are at least 16,
\* except in a right-edge or bottom-edge tile of the branch, where they are
\* at least 1
C3_MinimumSizes ==
    hw.written =>
        \A n \in 1 .. Len(hw.tiles), j \in EnabledOutputs :
            LET t == hw.tiles[n]
                p == hw.plan[n]
                right == p.output_offset_x[j] + p.output_width[j] = be_config_.output_format[j].image.width
                bottom == p.output_offset_y[j] + p.output_height[j] = be_config_.output_format[j].image.height
            IN ProducesOutput(t, j) =>
                /\ SizeOk(t.input_width - t.crop_x_start[j] - t.crop_x_end[j],
                          PISP_BACK_END_MIN_TILE_WIDTH, right)
                /\ SizeOk(t.input_height - t.crop_y_start[j] - t.crop_y_end[j],
                          PISP_BACK_END_MIN_TILE_HEIGHT, bottom)
                /\ SizeOk(t.resample_in_width[j], PISP_BACK_END_MIN_TILE_WIDTH, right)
                /\ SizeOk(t.resample_in_height[j], PISP_BACK_END_MIN_TILE_HEIGHT, bottom)

\* a downscaled branch written by several tiles
C3_Witness ==
    /\ hw.written
    /\ \E j \in EnabledOutputs :
        /\ DOWNSCALE(j) \in be_config_.global.rgb_enables
        /\ num_tiles_x_ >= 2
        /\ \A n \in 1 .. Len(hw.tiles) : ProducesOutput(hw.tiles[n], j)

\* C4 as stated: no emitted tile has zero output on every enabled branch,
\* because whenever no branch can advance along an axis the split raises a
\* tiling failure, so that no such tile is ever planned
C4_StallRaises ==
    /\ hw.written =>
        \A n \in 1 .. Len(hw.tiles) : \E j \in EnabledOutputs : ProducesOutput(hw.tiles[n], j)
    /\ \A d \in {x_tiles, y_tiles} : \A n \in 1 .. Len(d) :
        \E b \in BuiltBranches(tiling_config) : d[n][<<"output", b>>].output.length > 0

Prepared == pc = "idle" /\ result = "ok" /\ hist.prepares > 0 /\ ~hist.set

C8_FlippedOnce ==
    hw.written =>
        \A n \in 1 .. Len(hw.tiles), j \in Branches :
            LET t == hw.tiles[n]
                p == hw.plan[n]
                f == hw.config.output_format[j]
            IN OUTPUT(j) \in hw.config.global.rgb_enables /\ ProducesOutput(t, j) =>
                /\ "HFLIP" \in f.transform =>
                     t.output_offset_x[j] = f.image.width - p.output_offset_x[j] - t.output_width[j]
                /\ "VFLIP" \in f.transform =>
                     t.output_offset_y[j] = f.image.height - p.output_offset_y[j] - 1

\* ------------------------------------------------------------------------
\* Concurrent callers of one BackEnd: the mutex is taken by lock(), try_lock()
\* and unlock(), which the callers call; Prepare and SetJsonConfig take no
\* lock themselves.  The configuration is written and read in two parts.
\* ------------------------------------------------------------------------
VARIABLES
    mutex_,            \* the thread that holds the ShmMutex, 0 when none does
    shared,            \* the two parts of the configuration record, by the write that stored them
    tpc,               \* where each thread is in its call
    bracket,           \* whether each thread has called lock() and not yet unlock()
    arg,               \* the configuration a thread's SetJsonConfig is storing
    seen,              \* the two parts a thread's Prepare has read
    writes,            \* number of SetJsonConfig calls begun
    unlocked_writes    \* history: some SetJsonConfig was called without lock()

lockVars == <<mutex_, shared, tpc, bracket, arg, seen, writes, unlocked_writes>>

Threads == {1, 2}
\* number of SetJsonConfig calls explored
MaxWrites == 2

ShmMutex_try_lock_Always(mutex, t) == TRUE

\* pthread_mutex_trylock succeeds when nobody holds the mutex
ShmMutex_try_lock(mutex, t) == mutex = 0

InitLock ==
    /\ mutex_ = 0
    /\ shared = [first |-> 0, second |-> 0]
    /\ tpc = [t \in Threads |-> "idle"]
    /\ bracket = [t \in Threads |-> FALSE]
    /\ arg = [t \in Threads |-> 0]
    /\ seen = [t \in Threads |-> [first |-> 0, second |-> 0]]
    /\ writes = 0
    /\ unlocked_writes = FALSE

\* BackEnd::lock returns once the mutex is free, BackEnd::try_lock at once
lock(t) ==
    /\ tpc[t] = "idle"
    /\ ~bracket[t]
    /\ ShmMutex_try_lock(mutex_, t)
    /\ mutex_' = t
    /\ bracket' = [bracket EXCEPT ![t] = TRUE]
    /\ UNCHANGED <<shared, tpc, arg, seen, writes, unlocked_writes>>

unlock(t) ==
    /\ tpc[t] = "idle"
    /\ bracket[t]
    /\ mutex_' = 0
    /\ bracket' = [bracket EXCEPT ![t] = FALSE]
    /\ UNCHANGED <<shared, tpc, arg, seen, writes, unlocked_writes>>

SetJsonConfigBegin(t) ==
    /\ tpc[t] = "idle"
    /\ writes < MaxWrites
    /\ writes' = writes + 1
    /\ arg' = [arg EXCEPT ![t] = writes + 1]
    /\ unlocked_writes' = (unlocked_writes \/ ~bracket[t])
    /\ tpc' = [tpc EXCEPT ![t] = "set1"]
    /\ UNCHANGED <<mutex_, shared, bracket, seen>>

SetJsonConfigFirst(t) ==
    /\ tpc[t] = "set1"
    /\ shared' = [shared EXCEPT !.first = arg[t]]
    /\ tpc' = [tpc EXCEPT ![t] = "set2"]
    /\ UNCHANGED <<mutex_, bracket, arg, seen, writes, unlocked_writes>>

SetJsonConfigSecond(t) ==
    /\ tpc[t] = "set2"
    /\ shared' = [shared EXCEPT !.second = arg[t]]
    /\ tpc' = [tpc EXCEPT ![t] = "idle"]
    /\ UNCHANGED <<mutex_, bracket, arg, seen, writes, unlocked_writes>>

PrepareBegin(t) ==
    /\ tpc[t] = "idle"
    /\ tpc' = [tpc EXCEPT ![t] = "prep1"]
    /\ UNCHANGED <<mutex_, shared, bracket, arg, seen, writes, unlocked_writes>>

PrepareReadFirst(t) ==
    /\ tpc[t] = "prep1"
    /\ seen' = [seen EXCEPT ![t].first = shared.first]
    /\ tpc' = [tpc EXCEPT ![t] = "prep2"]
    /\ UNCHANGED <<mutex_, shared, bracket, arg, writes, unlocked_writes>>

PrepareReadSecond(t) ==
    /\ tpc[t] = "prep2"
    /\ seen' = [seen EXCEPT ![t].second = shared.second]
    /\ tpc' = [tpc EXCEPT ![t] = "prep3"]
    /\ UNCHANGED <<mutex_, shared, bracket, arg, writes, unlocked_writes>>

PrepareEnd(t) ==
    /\ tpc[t] = "prep3"
    /\ tpc' = [tpc EXCEPT ![t] = "idle"]
    /\ UNCHANGED <<mutex_, shared, bracket, arg, seen, writes, unlocked_writes>>

InCall(t) == tpc[t] # "idle"

\* C7 as stated: every setter and every Prepare holds the mutex for the
\* whole call, and no Prepare observes a partial update of the record
C7_CallsHoldMutex ==
    \A t \in Threads :
        /\ InCall(t) => mutex_ = t
        /\ tpc[t] = "prep3" => seen[t].first = seen[t].second

\* C7, amended: the mutex is held by the callers that call lock(), one at a
\* time, not by the calls themselves; when every SetJsonConfig is made under
\* lock(), a Prepare made under lock() observes no partial update
C7_LockedCallsSerialised ==
    /\ \A t, u \in Threads : t # u => ~(bracket[t] /\ bracket[u])
    /\ \A t \in Threads : bracket[t] => mutex_ = t
    /\ ~unlocked_writes =>
        \A t \in Threads : bracket[t] /\ tpc[t] = "prep3" => seen[t].first = seen[t].second

\* a Prepare under lock() has read a record that a SetJsonConfig under
\* lock() stored, while the other thread is in the middle of a Prepare
C7_Witness ==
    /\ ~unlocked_writes
    /\ \E t, u \in Threads :
        /\ t # u
        /\ bracket[t] /\ tpc[t] = "prep3" /\ seen[t].first >= 1
        /\ tpc[u] = "prep2"

\* ------------------------------------------------------------------------
\* The JSON dump and load of backend_debug.cpp, on three fields of the
\* configuration and two fields of a tile
\* ------------------------------------------------------------------------
\* a field of the catalogue: its block and name, and the number of bytes the
\* catalogue gives it; member is the struct member its offset points at
ConfigField(block, name, member, size) ==
    [block |-> block, name |-> name, member |-> member, size |-> size]

\* from the be_config catalogue: the struct members are all uint16_t
be_config_fields ==
    << ConfigField("input_format", "width", "input_format.width", 2),
       ConfigField("cac", "grid_step_y", "cac.grid_step_y", 1),
       ConfigField("output_format0", "hi", "output_format0.hi", 1) >>

\* from the tiles_config catalogue: input_height has the offset of input_width
tiles_config_fields ==
    << ConfigField("tiles", "input_width", "input_width", 2),
       ConfigField("tiles", "input_height", "input_width", 2) >>

ConfigMembers == {"input_format.width", "cac.grid_step_y", "output_format0.hi"}
TileMembers == {"input_width", "input_height"}
FieldNames(fields) == {fields[k].name : k \in 1 .. Len(fields)}
FieldNamed(fields, name) == CHOOSE f \in {fields[k] : k \in 1 .. Len(fields)} : f.name = name
BlockNames == {be_config_fields[k].block : k \in 1 .. Len(be_config_fields)}
BlockFields(block) ==
    SelectSeq(be_config_fields, LAMBDA f : f.block = block)

\* the low size bytes at a member's offset, little-endian
read_val(struct, member, size) == struct[member] % (256 ^ size)
\* the member after its low size bytes are overwritten with those of val
write_val(struct, member, size, val) ==
    [struct EXCEPT ![member] = ((@ \div (256 ^ size)) * (256 ^ size)) + (val % (256 ^ size))]

JsonObject(members) == [kind |-> "object", members |-> members]
JsonArray(items) == [kind |-> "array", items |-> items]

\* the JSON object of the fields read from a struct
ReadFields(struct, fields) ==
    JsonObject([n \in FieldNames(fields) |->
                    read_val(struct, FieldNamed(fields, n).member, FieldNamed(fields, n).size)])

\* GetJsonConfig: "config" is an array with one element per block, each an
\* object with the block's name as its only key; "tiles" is an array
GetJsonConfig(c) ==
    JsonObject([key \in {"config", "tiles"} |->
        IF key = "config"
        THEN JsonArray([k \in 1 .. Len(be_config_fields) |->
                JsonObject([b \in {be_config_fields[k].block} |->
                                ReadFields(c.config, BlockFields(b))])])
        ELSE JsonArray([t \in 1 .. c.num_tiles |-> ReadFields(c.tiles[t], tiles_config_fields)])])

\* the same values in the form SetJsonConfig reads: "config" is an object
\* with the blocks' names as keys
KeyedByBlock(j) ==
    [j EXCEPT !.members["config"] =
        JsonObject([b \in BlockNames |->
            (CHOOSE item \in {@.items[k] : k \in 1 .. Len(@.items)} : b \in DOMAIN item.members).members[b]])]

RECURSIVE WriteFields(_, _, _)
WriteFields(c, j, k) ==
    IF k > Len(be_config_fields) THEN c
    ELSE LET f == be_config_fields[k]
             value == j.members["config"].members[f.block].members[f.name]
         IN WriteFields(write_val(c, f.member, f.size, value), j, k + 1)

\* SetJsonConfig: j["config"][name] with a string for a name throws
\* type_error unless j["config"] is an object; the tiles are not read
SetJsonConfig(o, j) ==
    IF j.members["config"].kind # "object" THEN [o EXCEPT !.err = "type_error"]
    ELSE [o EXCEPT !.config = WriteFields(o.config, j, 1),
                   !.dirty_flags = {},
                   !.retile_ = TRUE]

VARIABLES
    json_c,      \* the pisp_be_tiles_config that is dumped
    json_doc,    \* the JSON document
    json_be,     \* the BackEnd that loads it
    json_pc

jsonVars == <<json_c, json_doc, json_be, json_pc>>

NoDocument == JsonObject([key \in {} |-> 0])

\* the configurations and tile arrays that are dumped
JsonCases ==
    {[config |-> [m \in ConfigMembers |->
                    CASE m = "input_format.width" -> width
                      [] m = "cac.grid_step_y" -> grid_step_y
                      [] m = "output_format0.hi" -> hi],
      tiles |-> <<[m \in TileMembers |->
                    IF m = "input_width" THEN input_width ELSE input_height]>>,
      num_tiles |-> num_tiles] :
        width \in {0, 640}, grid_step_y \in {0, 300}, hi \in {255, 65535},
        num_tiles \in {0, 1}, input_width \in {64, 128}, input_height \in {16, 64}}

InitJsonFor(c) ==
    /\ json_c = c
    /\ json_doc = NoDocument
    /\ json_be = [config |-> [m \in ConfigMembers |-> 0], tiles_ |-> <<>>,
                  dirty_flags |-> {"INPUT"}, retile_ |-> FALSE, err |-> ""]
    /\ json_pc = "start"

JsonDump ==
    /\ json_pc = "start"
    /\ json_doc' = GetJsonConfig(json_c)
    /\ json_pc' = "dumped"
    /\ UNCHANGED <<json_c, json_be>>

JsonLoad ==
    /\ json_pc = "dumped"
    /\ json_be' = SetJsonConfig(json_be, json_doc)
    /\ json_pc' = "loaded"
    /\ UNCHANGED <<json_c, json_doc>>

JsonLoadKeyed ==
    /\ json_pc = "dumped"
    /\ json_be' = SetJsonConfig(json_be, KeyedByBlock(json_doc))
    /\ json_pc' = "loaded_keyed"
    /\ UNCHANGED <<json_c, json_doc>>

\* C9: loading the JSON that dumping c produced gives a configuration and a
\* tile array equal to c in every field of the catalogue
C9_RoundTrip ==
    json_pc = "loaded" =>
        /\ json_be.err = ""
        /\ json_be.config = json_c.config
        /\ json_be.tiles_ = SubSeq(json_c.tiles, 1, json_c.num_tiles)

\* ------------------------------------------------------------------------
\* FrontEnd::MergeConfig on the blocks of pisp_fe_config from lsc onwards
\* ------------------------------------------------------------------------
\* the members of pisp_fe_config that are modelled, each one cell of memory
FeMembers ==
    {"lsc", "agc_stats", "awb_stats", "cdaf_stats", "floating_stats", "ch[0].crop"}

\* offsetof(pisp_fe_config, member), from the packed layout of the struct
offsetof(member) ==
    CASE member = "lsc" -> 256
      [] member = "agc_stats" -> 296
      [] member = "awb_stats" -> 444
      [] member = "cdaf_stats" -> 468
      [] member = "floating_stats" -> 488
      [] member = "ch[0].crop" -> 528
      [] member = "dirty_flags" -> 624
      [] member = "dirty_flags_extra" -> 628

\* sizeof of the types the map and the struct name
sizeof(type) ==
    CASE type = "pisp_fe_lsc_config" -> 40
      [] type = "pisp_fe_agc_stats_config" -> 148
      [] type = "pisp_agc_statistics" -> 6208
      [] type = "pisp_fe_awb_stats_config" -> 24
      [] type = "pisp_fe_cdaf_stats_config" -> 20
      [] type = "pisp_fe_floating_stats_config" -> 32
      [] type = "pisp_fe_crop_config" -> 8
      [] type = "uint32_t" -> 4
      [] type = "pisp_fe_config" -> 632

\* the type each member is declared with in pisp_fe_config
MemberType(member) ==
    CASE member = "lsc" -> "pisp_fe_lsc_config"
      [] member = "agc_stats" -> "pisp_fe_agc_stats_config"
      [] member = "awb_stats" -> "pisp_fe_awb_stats_config"
      [] member = "cdaf_stats" -> "pisp_fe_cdaf_stats_config"
      [] member = "floating_stats" -> "pisp_fe_floating_stats_config"
      [] member = "ch[0].crop" -> "pisp_fe_crop_config"
      [] member = "dirty_flags" -> "uint32_t"
      [] member = "dirty_flags_extra" -> "uint32_t"

config_param(dirty_flag, dirty_flag_extra, member, type) ==
    [dirty_flag |-> dirty_flag, dirty_flag_extra |-> dirty_flag_extra,
     member |-> member, offset |-> offsetof(member), size |-> sizeof(type)]

\* the entries of config_map for the modelled members, in the map's order
config_map ==
    << config_param({}, {"PISP_FE_DIRTY_FLOATING"}, "floating_stats", "pisp_fe_floating_stats_config"),
       config_param({"PISP_FE_ENABLE_CDAF_STATS"}, {}, "cdaf_stats", "pisp_fe_cdaf_stats_config"),
       config_param({"PISP_FE_ENABLE_AWB_STATS"}, {}, "awb_stats", "pisp_fe_awb_stats_config"),
       config_param({"PISP_FE_ENABLE_LSC"}, {}, "lsc", "pisp_fe_lsc_config"),
       config_param({"PISP_FE_ENABLE_AGC_STATS"}, {}, "agc_stats", "pisp_agc_statistics"),
       config_param({"PISP_FE_ENABLE_CROP0"}, {}, "ch[0].crop", "pisp_fe_crop_config") >>

FeEnables == UNION {config_map[k].dirty_flag : k \in 1 .. Len(config_map)}
FeDirtyExtra == UNION {config_map[k].dirty_flag_extra : k \in 1 .. Len(config_map)}

\* whether the size bytes from offset include the member
Covers(offset, size, member) ==
    /\ offset <= offsetof(member)
    /\ offsetof(member) + sizeof(MemberType(member)) <= offset + size

\* memcpy(dest + offset, src + offset, size) on two pisp_fe_config objects
memcpy(dest, src, offset, size) ==
    [blocks |-> [m \in FeMembers |->
                    IF Covers(offset, size, m) THEN src.blocks[m] ELSE dest.blocks[m]],
     dirty_flags |-> IF Covers(offset, size, "dirty_flags")
                     THEN src.dirty_flags ELSE dest.dirty_flags,
     dirty_flags_extra |-> IF Covers(offset, size, "dirty_flags_extra")
                           THEN src.dirty_flags_extra ELSE dest.dirty_flags_extra]

\* whether the copy runs past the end of the two objects
PastTheEnd(offset, size) == offset + size > sizeof("pisp_fe_config")

RECURSIVE MergeFrom(_, _, _)
MergeFrom(fe, cfg, k) ==
    IF k > Len(config_map) THEN fe
    ELSE LET param == config_map[k]
         IN IF param.dirty_flag \cap cfg.dirty_flags # {}
               \/ param.dirty_flag_extra \cap cfg.dirty_flags_extra # {}
            THEN LET copied == memcpy(fe.fe_config_, cfg, param.offset, param.size)
                 IN MergeFrom([fe_config_ |->
                                [copied EXCEPT !.dirty_flags = @ \cup param.dirty_flag,
                                               !.dirty_flags_extra = @ \cup param.dirty_flag_extra],
                               past_the_end |-> fe.past_the_end \/ PastTheEnd(param.offset, param.size)],
                              cfg, k + 1)
            ELSE MergeFrom(fe, cfg, k + 1)

\* the FrontEnd after MergeConfig(config); past_the_end says that a copy read
\* and wrote memory after the two objects
MergeConfig(fe_config, cfg) ==
    MergeFrom([fe_config_ |-> fe_config, past_the_end |-> FALSE], cfg, 1)

VARIABLES
    fe_config_,     \* the FrontEnd's configuration
    update,         \* the configuration that is merged into it
    fe_before,      \* fe_config_ when MergeConfig was called
    fe_after,       \* the memory after fe_config_: "intact", "overwritten", "fault"
    merge_pc

mergeVars == <<fe_config_, update, fe_before, fe_after, merge_pc>>

\* the updates that are merged: every dirty mask over the modelled blocks
MergeCases ==
    {[blocks |-> [m \in FeMembers |-> "u"], dirty_flags |-> M, dirty_flags_extra |-> X] :
        M \in SUBSET FeEnables, X \in SUBSET FeDirtyExtra}

InitMergeFor(u) ==
    /\ update = u
    /\ fe_config_ = [blocks |-> [m \in FeMembers |-> "c"],
                     dirty_flags |-> {}, dirty_flags_extra |-> {}]
    /\ fe_before = fe_config_
    /\ fe_after = "intact"
    /\ merge_pc = "start"

\* a copy past the end of the objects is undefined: the memory after
\* fe_config_ is overwritten, or the access faults, or nothing is noticed
CallMergeConfig ==
    /\ merge_pc = "start"
    /\ LET merged == MergeConfig(fe_config_, update)
       IN /\ fe_config_' = merged.fe_config_
          /\ fe_after' \in (IF merged.past_the_end
                            THEN {"intact", "overwritten", "fault"} ELSE {"intact"})
    /\ fe_before' = fe_config_
    /\ merge_pc' = "merged"
    /\ UNCHANGED update

\* the map entry of a member
ParamOf(member) ==
    CHOOSE param \in {config_map[k] : k \in 1 .. Len(config_map)} : param.member = member
Dirty(param, cfg) ==
    \/ param.dirty_flag \cap cfg.dirty_flags # {}
    \/ param.dirty_flag_extra \cap cfg.dirty_flags_extra # {}

\* C10: after merging update with dirty mask M, each block whose dirty bit is
\* in M equals the update's block and every other block is as it was
C10_MergeRespectsDirtyFlags ==
    merge_pc = "merged" =>
        \A m \in FeMembers :
            fe_config_.blocks[m] = IF Dirty(ParamOf(m), update)
                                   THEN update.blocks[m] ELSE fe_before.blocks[m]

\* ------------------------------------------------------------------------
\* The configurations whose validation is explored
\* ------------------------------------------------------------------------
BaseCase == Configure(UseCase(128, 64, 0, 0, Rgb({}, NoCrop), BranchOff))

\* every choice of the input and output enables, over one configuration
EnableCases ==
    { SetGlobal(BaseCase, [bayer_enables |-> b, rgb_enables |-> r]) :
          b \in SUBSET {"INPUT", "LSC"}, r \in SUBSET {INPUT, OUTPUT(0), OUTPUT(1)} }

\* smart resize requests from no reduction to more than sixteen times, on
\* the branch without a downscaler and on the branch with one
SmartWidths == {128, 64, 63, 42, 17, 16, 8, 6}
SmartHeights == {64, 32, 31, 16, 4}
SmartCases ==
    { Configure(UseCase(128, 64, 0, 0, s[1], s[2])) :
          s \in { <<SmartResized(w, h), BranchOff>> : w \in SmartWidths, h \in SmartHeights }
                \cup { <<BranchOff, SmartResized(w, h)>> : w \in SmartWidths, h \in SmartHeights }
                \cup { <<BranchOff, Branch(TRUE, FMT_RGB888, {}, CropOf(0, 0, 100, 50), NoSize, NoSize,
                                           [width |-> w, height |-> h])>> :
                           w \in SmartWidths, h \in SmartHeights } }
    \cup { Configure(UseCase(512, 64, 0, 0, BranchOff, SmartResized(w, h))) :
               w \in {24, 32, 200}, h \in SmartHeights }

\* resample targets on either side of both limits, the targets of zero
\* and of one pixel, and a resample block set on a branch with no output
ResampleCases ==
    { Configure(UseCase(512, 64, 0, 0, Resampled(w, h), BranchOff)) :
          w \in {0, 1, 2, 32, 33, 256, 512}, h \in {0, 1, 16, 64, 1009, 1010} }
    \cup { Configure(UseCase(128, 64, 0, 0, Resampled(w, 64), BranchOff)) : w \in {2033, 2034} }
    \cup { SetResampleExtra(SetGlobal(BaseCase, [bayer_enables |-> {"INPUT"},
                                                 rgb_enables |-> {OUTPUT(0), RESAMPLE(1)}]),
                            1, WithPhases(SizeOf(w, 64))) : w \in {4, 64} }

\* downscale targets at unity, between unity and 2x, at 2x and 8x and
\* beyond, the target of zero, 4096x2160 to 1024x540, and a downscale
\* block set on a branch with no output
DownscaleCases ==
    { Configure(UseCase(512, 64, 0, 0, BranchOff, Downscaled(w, h))) :
          w \in {0, 63, 64, 256, 257, 511, 512}, h \in {0, 16, 32, 33, 64} }
    \cup { Configure(UseCase(4096, 2160, 0, 0, BranchOff, Downscaled(1024, 540))) }
    \cup { SetDownscaleExtra(SetGlobal(BaseCase, [bayer_enables |-> {"INPUT"},
                                                  rgb_enables |-> {OUTPUT(0), DOWNSCALE(1)}]),
                             1, SizeOf(w, 64)) : w \in {100, 64} }

FMT_YUV422 == Format(8, TRUE, "INTERLEAVED", "422")
FMT_BAYER8_COMPRESSED == [Format(8, FALSE, "INTERLEAVED", "444") EXCEPT !.compressed = TRUE]
FMT_BAYER16_COMPRESSED == [FMT_BAYER16 EXCEPT !.compressed = TRUE]

\* one input image and the output of branch 0: the enables, the input
\* with the stride compute_stride gives it, the output format with the
\* strides the caller supplies, and the crop
FormatCase(global, input, format, stride, stride2, crop) ==
    LET o1 == SetGlobal(Constructed, global)
        o2 == SetInputFormat(o1, input)
        o3 == SetOutputFormat(o2, 0, [image |-> [ImageFormat(0, 0, format, stride) EXCEPT !.stride2 = stride2],
                                      transform |-> {}])
    IN IF crop # NoCrop THEN SetCrop(o3, 0, crop) ELSE o3

BayerInput == [bayer_enables |-> {"INPUT"}, rgb_enables |-> {OUTPUT(0)}]
RgbInput == [bayer_enables |-> {}, rgb_enables |-> {INPUT, OUTPUT(0)}]
ImageSizes == {<<128, 64>>, <<129, 64>>, <<128, 65>>}

\* images of even and of odd size, subsampled or not, compressed or not,
\* at the Bayer input, at the RGB input and at an output
FormatCases ==
    { FormatCase([BayerInput EXCEPT !.bayer_enables = @ \cup d],
                 compute_stride(ImageFormat(z[1], z[2], f, 0)), FMT_RGB888, 0, 0, NoCrop) :
          d \in {{}, {"DECOMPRESS"}}, z \in ImageSizes,
          f \in {FMT_BAYER16, FMT_BAYER8_COMPRESSED, FMT_BAYER16_COMPRESSED} }
    \cup { FormatCase(RgbInput, compute_stride(ImageFormat(z[1], z[2], f, 0)), FMT_RGB888, 0, 0, NoCrop) :
               z \in ImageSizes, f \in {FMT_RGB888, FMT_YUV422, FMT_YUV420P} }
    \cup { FormatCase(BayerInput, compute_stride(ImageFormat(128, 64, FMT_BAYER16, 0)), f, 0, 0, crop) :
               f \in {FMT_RGB888, FMT_YUV422, FMT_YUV420P, [FMT_RGB888 EXCEPT !.bps = 16, !.compressed = TRUE]},
               crop \in {NoCrop, CropOf(0, 0, 127, 64), CropOf(0, 0, 128, 63)} }

FMT_YUV420SP_WALLPAPER == [Format(8, TRUE, "SEMI_PLANAR", "420") EXCEPT !.wallpaper = TRUE]

\* strides left at zero for Prepare to fill in and strides the caller
\* supplies, aligned and not, for outputs of 136x64 and for inputs
StrideCases ==
    { FormatCase(BayerInput, compute_stride(ImageFormat(136, 64, FMT_BAYER16, 0)), f, t[1], t[2], NoCrop) :
          f \in {FMT_RGB888, FMT_YUV420P, FMT_YUV420SP_WALLPAPER},
          t \in {<<0, 0>>, <<0, 8>>, <<408, 0>>, <<416, 0>>, <<448, 0>>, <<448, 72>>, <<448, 80>>,
                 <<8192, 4096>>, <<8192, 4160>>, <<8256, 4096>>} }
    \cup { FormatCase(g, [ImageFormat(136, 64, f, t[1]) EXCEPT !.stride2 = t[2]], FMT_RGB888, 0, 0, NoCrop) :
               g \in {BayerInput, RgbInput}, f \in {FMT_BAYER16, FMT_RGB888, FMT_YUV420SP_WALLPAPER},
               t \in {<<0, 0>>, <<408, 0>>, <<416, 0>>, <<416, 8>>, <<8192, 4096>>, <<8256, 4096>>} }

ValidateCases ==
    EnableCases \cup SmartCases \cup ResampleCases \cup DownscaleCases \cup FormatCases \cup StrideCases

\* the TDN and stitch blocks: every choice of their enable bits, with the
\* blocks left as constructed or set by the caller, tdn.reset set or not,
\* and images left for Prepare to size, sized as the input, and of another
\* size; the input of 128x64 is tiled in columns of at most 64
TdnEnables == SUBSET {"TDN", "TDN_INPUT", "TDN_OUTPUT", "TDN_COMPRESS", "TDN_DECOMPRESS"}
StitchEnables == {{}, {"STITCH", "STITCH_INPUT"}, {"STITCH_OUTPUT"}, {"STITCH"},
                  {"STITCH", "STITCH_INPUT", "STITCH_OUTPUT", "STITCH_COMPRESS"}}
RawImages == {ImageFormat(0, 0, FMT_BAYER16, 0), ImageFormat(128, 64, FMT_BAYER16, 256),
              ImageFormat(64, 64, FMT_BAYER16, 128), ImageFormat(0, 0, FMT_BAYER8_COMPRESSED, 0)}

AuxBase(enables) ==
    SetOutputFormat(
        SetInputFormat(SetGlobal(Constructed, [bayer_enables |-> {"INPUT"} \cup enables,
                                               rgb_enables |-> {OUTPUT(0)}]),
                       compute_stride(ImageFormat(128, 64, FMT_BAYER16, 0))),
        0, [image |-> ImageFormat(0, 0, FMT_RGB888, 0), transform |-> {}])

TdnCases ==
    { AuxBase(e) : e \in TdnEnables }
    \cup { SetTdnInputFormat(SetTdnOutputFormat(SetTdn(AuxBase(e), [reset |-> r]), f), f) :
               e \in TdnEnables, r \in BOOLEAN, f \in RawImages }
    \cup { SetTdnInputFormat(AuxBase(e), f) : e \in {{}, {"TDN_OUTPUT"}}, f \in RawImages }
    \cup { SetTdnOutputFormat(SetTdn(AuxBase({"TDN", "TDN_OUTPUT"}), [reset |-> TRUE]), f) : f \in RawImages }

StitchCases ==
    { AuxBase(e) : e \in StitchEnables }
    \cup { SetStitchInputFormat(SetStitchOutputFormat(AuxBase(e), f), f) :
               e \in StitchEnables, f \in RawImages }

AuxCases == TdnCases \cup StitchCases

\* Two outputs that do not cover the same part of the image: one branch
\* starts later than the other, along x or along y, or ends before it; with
\* a mirrored output, and with a downscaler or a resampler behind the crop.
Cropped(transform, crop, down, res) ==
    Branch(TRUE, FMT_RGB888, transform, crop, down, res, NoSmartResize)

BranchPairs(W, H) ==
    { <<Rgb({}, NoCrop), Rgb({}, CropOf(160, 0, W - 160, H))>>,
      <<Rgb({}, NoCrop), Rgb({}, CropOf(0, 80, W, H - 80))>>,
      <<Rgb({}, NoCrop), Rgb({"HFLIP"}, CropOf(160, 0, W - 160, H))>>,
      <<Rgb({"HFLIP"}, CropOf(96, 0, W - 96, H)), Rgb({"VFLIP"}, NoCrop)>>,
      <<Rgb({}, NoCrop), Cropped({}, CropOf(160, 0, W - 160, H), SizeOf((W - 160) \div 2, H \div 2), NoSize)>>,
      <<Rgb({}, NoCrop), Cropped({}, CropOf(160, 0, W - 160, H), NoSize, SizeOf((3 * (W - 160)) \div 4, H))>>,
      <<Rgb({}, NoCrop), Rgb({}, CropOf(32, 0, 128, H))>>,
      <<Rgb({}, NoCrop), Rgb({}, CropOf(0, 0, 120, H))>> }

\* A compressed Bayer input of 8 bits a sample with the decompressor on:
\* widths that are and are not multiples of 8, one output taking the whole
\* image, a window of it or a resampled image, or a second output behind a
\* crop that starts at a column that is no multiple of 8.
CompressedWidths == {132, 216, 300}

CompressedInput(o, W, H) ==
    SetGlobal(SetInputFormat(o, compute_stride(ImageFormat(W, H, FMT_BAYER8_COMPRESSED, 0))),
              [o.be_config_.global EXCEPT !.bayer_enables = @ \cup {"DECOMPRESS"}])

CompressedPairs(W, H) ==
    { <<Rgb({}, NoCrop), BranchOff>>,
      <<Rgb({}, CropOf(20, 8, W - 52, H - 16)), BranchOff>>,
      <<Rgb({"HFLIP"}, CropOf(20, 8, W - 52, H - 16)), BranchOff>>,
      <<Resampled((3 * W) \div 4, H), BranchOff>>,
      <<Rgb({}, NoCrop), Rgb({}, CropOf(84, 0, W - 84, H))>> }

CompressedCases ==
    UNION { { [max_tile_width |-> mtw,
               o |-> CompressedInput(Configure(UseCase(W, 64, mtw, 0, s[1], s[2])), W, 64)] :
              s \in CompressedPairs(W, 64) } :
            W \in CompressedWidths, mtw \in {64, 128, 0} }

\* configurations whose tiling fails, in the sweep along x, in the sweep
\* along y, in the conversion or in check_tiles, and some whose tiling
\* succeeds
RetryCases ==
    UNION { { UseCase(W, H, 64, 0, s[1], s[2]) : s \in BranchSetups(W, H) \cup BranchPairs(W, H) } :
            W \in {216, 304}, H \in {64} }

BranchCases ==
    UNION { { UseCase(W, H, mtw, msh, s[1], s[2]) : s \in BranchPairs(W, H) } :
            W \in {216, 304}, H \in {64, 128}, mtw \in {64, 128}, msh \in {0, 48} }

\* initial phases of the three planes: none, negative, small, apart by more
\* than half an output pixel, and large enough to pass 2 * UnityPhase
InitialPhases ==
    { ZeroPhases, <<-1, -1, -1>>, <<-256, -256, -256>>, <<100, 100, 100>>, <<0, 64, 128>>,
      <<0, 3000, 0>>, <<4352, 4352, 4352>>, <<8191, 8191, 8191>>, <<0, -1, 0>> }

\* one resampled output, to three quarters and to five quarters of the
\* input, with initial phases
PhaseCases ==
    { UseCase(W, 64, mtw, 0,
              Branch(TRUE, FMT_RGB888, {}, NoCrop, NoSize,
                     ResampleExtra((q * W) \div 4, (q * 64) \div 4, ph, pv), NoSmartResize),
              BranchOff) :
          W \in {216, 304}, mtw \in {64, 128}, q \in {3, 5}, ph \in InitialPhases,
          pv \in {ZeroPhases, <<-1, -1, -1>>} }

\* ------------------------------------------------------------------------
\* get_plane_size and its caller, V4l2Device::SetFormat.  A size can pass
\* 2^31: a uint64_t is kept as the record [hi, lo] of value hi * 2^16 + lo.
\* ------------------------------------------------------------------------
Half == 65536
Wide(hi, lo) == [hi |-> hi, lo |-> lo]
WideZero == Wide(0, 0)

\* a * b as a uint64_t, for a below 2^16 and b below 2^31
WideProduct(a, b) ==
    LET bh == b \div Half
        bl == b % Half
        ah == a \div 256
        al == a % 256
        lo_sum == ((ah * bl) % 256) * 256 + ((al * bl) % Half)
    IN Wide(a * bh + ((ah * bl) \div 256) + ((al * bl) \div Half) + (lo_sum \div Half), lo_sum % Half)

\* plane_size >= (1ULL << 32)
PastU32(w) == w.hi >= Half

\* the conversion of a size to the __u32 of sizeimage, and the sum of two
TruncU32(w) == Wide(w.hi % Half, w.lo)
AddU32(v, w) == Wide((v.hi + w.hi + ((v.lo + w.lo) \div Half)) % Half, (v.lo + w.lo) % Half)


num_planes(format) ==
    IF PISP_IMAGE_FORMAT_THREE_CHANNEL(format)
    THEN (CASE format.planarity = "SEMI_PLANAR" -> 2
            [] format.planarity = "PLANAR" -> 3
            [] OTHER -> 1)
    ELSE 1

\* the uint64_t plane_size that get_plane_size computes
plane_size(image, plane) ==
    LET stride == abs(IF plane # 0 THEN image.stride2 ELSE image.stride)
        pixels_in_roll == IF PISP_IMAGE_FORMAT_BPS_8(image.format) THEN PISP_WALLPAPER_WIDTH
                          ELSE IF PISP_IMAGE_FORMAT_BPS_16(image.format) THEN PISP_WALLPAPER_WIDTH \div 2
                          ELSE (PISP_WALLPAPER_WIDTH \div 4) * 3
        num_rolls == (image.width + pixels_in_roll - 1) \div pixels_in_roll
        height == IF plane # 0 /\ PISP_IMAGE_FORMAT_SAMPLING_420(image.format)
                  THEN image.height \div 2 ELSE image.height
    IN IF PISP_IMAGE_FORMAT_WALLPAPER(image.format) THEN WideProduct(num_rolls, stride)
       ELSE WideProduct(height, stride)

get_plane_size_Unchecked(image, plane) == plane_size(image, plane)

get_plane_size(image, plane) ==
    IF PastU32(plane_size(image, plane)) THEN WideZero ELSE plane_size(image, plane)

\* get_v4l2_format: the formats V4L2 knows, and the number of their memory
\* planes; a v4l2_pixfmt of 0 for the rest
get_v4l2_format(format) ==
    IF ~PISP_IMAGE_FORMAT_THREE_CHANNEL(format) \/ format.compressed \/ format.wallpaper \/ format.bps # 8
    THEN [v4l2_pixfmt |-> 0, num_memory_planes |-> 0]
    ELSE IF format.planarity = "INTERLEAVED" /\ format.sampling \in {"444", "422"}
    THEN [v4l2_pixfmt |-> 1, num_memory_planes |-> 1]
    ELSE IF format.planarity = "PLANAR" /\ format.sampling \in {"420", "422"}
    THEN [v4l2_pixfmt |-> 1, num_memory_planes |-> 1]
    ELSE IF format.planarity = "PLANAR" /\ format.sampling = "444"
    THEN [v4l2_pixfmt |-> 1, num_memory_planes |-> 3]
    ELSE [v4l2_pixfmt |-> 0, num_memory_planes |-> 0]

\* the sum, as a __u32, of the sizes of the planes from p to n - 1
RECURSIVE SumPlanes(_, _, _)
SumPlanes(image, p, n) ==
    IF p >= n THEN WideZero
    ELSE AddU32(TruncU32(get_plane_size(image, p)), SumPlanes(image, p + 1, n))

\* plane_fmt[p].sizeimage for each memory plane, as SetFormat fills them in
SizeImages(image, use_opaque_format) ==
    LET info == get_v4l2_format(image.format)
        n == info.num_memory_planes
    IN IF use_opaque_format \/ info.v4l2_pixfmt = 0
       THEN [p \in 0 .. 2 |-> SumPlanes(image, 0, 3)]
       ELSE [p \in 0 .. n - 1 |->
                IF p < n - 1 THEN TruncU32(get_plane_size(image, p))
                ELSE AddU32(TruncU32(get_plane_size(image, p)),
                            SumPlanes(image, n, num_planes(image.format)))]

\* the planes whose size SetFormat asks for
PlanesAsked(image, use_opaque_format) ==
    IF use_opaque_format \/ get_v4l2_format(image.format).v4l2_pixfmt = 0 THEN 0 .. 2
    ELSE 0 .. (IF num_planes(image.format) > get_v4l2_format(image.format).num_memory_planes
               THEN num_planes(image.format) ELSE get_v4l2_format(image.format).num_memory_planes) - 1

VARIABLES
    v4l2                  \* a V4l2Device, and what its SetFormat got from get_plane_size
                          \* (returned) and gave to the ioctl (sizeimage, handed)

v4l2Vars == <<v4l2>>

\* the images SetFormat is called with: of 64 lines and of 2^15 and more,
\* with strides on both sides of 2^32 / height
PlaneFormats == {FMT_RGB888, FMT_YUV420P, FMT_YUV422, Format(8, TRUE, "PLANAR", "444"),
                 FMT_YUV420SP_WALLPAPER}
PlaneCases ==
    { [ImageFormat(1024, h, f, t) EXCEPT !.stride2 = t \div 2] :
          f \in PlaneFormats, h \in {64, 32768, 65535},
          t \in {4096, 65552, 131056, 131072, 262144, 67108864} }

InitV4l2For(c, opaque) ==
    v4l2 = [format |-> c, use_opaque_format |-> opaque, pc |-> "idle", sizeimage |-> <<>>,
            returned |-> <<>>, handed |-> FALSE, result |-> ""]

\* V4l2Device::SetFormat: fills in the v4l2_format and hands it to the
\* VIDIOC_S_FMT ioctl, which the kernel accepts or refuses
SetFormat ==
    /\ v4l2.pc = "idle"
    /\ \E ret \in {0, -1} :
          v4l2' = [v4l2 EXCEPT !.pc = "ioctl",
                               !.sizeimage = SizeImages(v4l2.format, v4l2.use_opaque_format),
                               !.returned = [p \in PlanesAsked(v4l2.format, v4l2.use_opaque_format) |->
                                                get_plane_size(v4l2.format, p)],
                               !.handed = TRUE,
                               !.result = IF ret = 0 THEN "ok" ELSE "runtime_error"]

\* ------------------------------------------------------------------------
\* Specifications
\* ------------------------------------------------------------------------
vars == <<beVars, lockVars, jsonVars, mergeVars, v4l2Vars>>

\* the parts of the state a specification does not exercise
BackEndAtRest == InitFor(UseCase(128, 64, 64, 0, Rgb({}, NoCrop), BranchOff))
JsonAtRest == InitJsonFor(CHOOSE c \in JsonCases : c.num_tiles = 0)
MergeAtRest == InitMergeFor(CHOOSE u \in MergeCases : u.dirty_flags = {} /\ u.dirty_flags_extra = {})
V4l2AtRest == InitV4l2For(ImageFormat(1024, 64, FMT_RGB888, 4096), FALSE)

\* setter calls and Prepare calls on one BackEnd
Init ==
    /\ \E u \in LifeCases : InitFor(u)
    /\ InitLock /\ JsonAtRest /\ MergeAtRest /\ V4l2AtRest

Next ==
    \/ CallPrepare /\ UNCHANGED <<lockVars, jsonVars, mergeVars, v4l2Vars>>
    \/ TileStep /\ UNCHANGED <<lockVars, jsonVars, mergeVars, v4l2Vars>>
    \/ RetilePipelineFinish /\ UNCHANGED <<lockVars, jsonVars, mergeVars, v4l2Vars>>
    \/ PrepareFinish /\ UNCHANGED <<lockVars, jsonVars, mergeVars, v4l2Vars>>
    \/ CallSetCrop /\ UNCHANGED <<lockVars, jsonVars, mergeVars, v4l2Vars>>
    \/ CallSetOutputFormat /\ UNCHANGED <<lockVars, jsonVars, mergeVars, v4l2Vars>>
    \/ CallSetSmartResize /\ UNCHANGED <<lockVars, jsonVars, mergeVars, v4l2Vars>>
    \/ CallSetGlobal /\ UNCHANGED <<lockVars, jsonVars, mergeVars, v4l2Vars>>
    \/ CallSetLsc /\ UNCHANGED <<lockVars, jsonVars, mergeVars, v4l2Vars>>

Spec == Init /\ [][Next]_vars

\* the same with SetJsonConfig among the calls
NextLoad ==
    \/ CallPrepare /\ UNCHANGED <<lockVars, jsonVars, mergeVars, v4l2Vars>>
    \/ TileStep /\ UNCHANGED <<lockVars, jsonVars, mergeVars, v4l2Vars>>
    \/ RetilePipelineFinish /\ UNCHANGED <<lockVars, jsonVars, mergeVars, v4l2Vars>>
    \/ PrepareFinish /\ UNCHANGED <<lockVars, jsonVars, mergeVars, v4l2Vars>>
    \/ CallSetCrop /\ UNCHANGED <<lockVars, jsonVars, mergeVars, v4l2Vars>>
    \/ CallSetSmartResize /\ UNCHANGED <<lockVars, jsonVars, mergeVars, v4l2Vars>>
    \/ CallSetLsc /\ UNCHANGED <<lockVars, jsonVars, mergeVars, v4l2Vars>>
    \/ CallSetJsonConfig /\ UNCHANGED <<lockVars, jsonVars, mergeVars, v4l2Vars>>

SpecLoad == Init /\ [][NextLoad]_vars

\* Prepare called again and again on each configuration of RetryCases
InitRetry ==
    /\ \E u \in RetryCases : InitFor(u)
    /\ InitLock /\ JsonAtRest /\ MergeAtRest /\ V4l2AtRest

NextRetry ==
    \/ CallPrepare /\ UNCHANGED <<lockVars, jsonVars, mergeVars, v4l2Vars>>
    \/ TileStep /\ UNCHANGED <<lockVars, jsonVars, mergeVars, v4l2Vars>>
    \/ RetilePipelineFinish /\ UNCHANGED <<lockVars, jsonVars, mergeVars, v4l2Vars>>
    \/ PrepareFinish /\ UNCHANGED <<lockVars, jsonVars, mergeVars, v4l2Vars>>
    \/ CallSetCrop /\ UNCHANGED <<lockVars, jsonVars, mergeVars, v4l2Vars>>

SpecRetry == InitRetry /\ [][NextRetry]_vars

\* one Prepare of each configuration of ValidateCases
InitValidate ==
    /\ \E o \in ValidateCases : InitWith(o, [max_tile_width |-> 0, max_stripe_height |-> 0])
    /\ InitLock /\ JsonAtRest /\ MergeAtRest /\ V4l2AtRest

\* one Prepare of each configuration of TilingCases
InitTiling ==
    /\ \E u \in TilingCases : InitFor(u)
    /\ InitLock /\ JsonAtRest /\ MergeAtRest /\ V4l2AtRest

NextTiling ==
    \/ (calls = 0 /\ CallPrepare) /\ UNCHANGED <<lockVars, jsonVars, mergeVars, v4l2Vars>>
    \/ TileStep /\ UNCHANGED <<lockVars, jsonVars, mergeVars, v4l2Vars>>
    \/ RetilePipelineFinish /\ UNCHANGED <<lockVars, jsonVars, mergeVars, v4l2Vars>>
    \/ PrepareFinish /\ UNCHANGED <<lockVars, jsonVars, mergeVars, v4l2Vars>>

SpecTiling == InitTiling /\ [][NextTiling]_vars

SpecValidate == InitValidate /\ [][NextTiling]_vars

\* one Prepare of each configuration of AuxCases
InitAux ==
    /\ \E o \in AuxCases : InitWith(o, [max_tile_width |-> 64, max_stripe_height |-> 0])
    /\ InitLock /\ JsonAtRest /\ MergeAtRest /\ V4l2AtRest

SpecAux == InitAux /\ [][NextTiling]_vars

\* one Prepare of each configuration of BranchCases
InitBranch ==
    /\ \E u \in BranchCases : InitFor(u)
    /\ InitLock /\ JsonAtRest /\ MergeAtRest /\ V4l2AtRest

SpecBranch == InitBranch /\ [][NextTiling]_vars

\* one Prepare of each configuration of PhaseCases
InitPhase ==
    /\ \E u \in PhaseCases : InitFor(u)
    /\ InitLock /\ JsonAtRest /\ MergeAtRest /\ V4l2AtRest

SpecPhase == InitPhase /\ [][NextTiling]_vars

\* one Prepare of each configuration of CompressedCases
InitCompressed ==
    /\ \E u \in CompressedCases : InitWith(u.o, [max_tile_width |-> u.max_tile_width, max_stripe_height |-> 0])
    /\ InitLock /\ JsonAtRest /\ MergeAtRest /\ V4l2AtRest

SpecCompressed == InitCompressed /\ [][NextTiling]_vars

\* two threads that call SetJsonConfig and Prepare, with lock() or without
InitLocking == BackEndAtRest /\ InitLock /\ JsonAtRest /\ MergeAtRest /\ V4l2AtRest

NextLocking ==
    \E t \in Threads :
        \/ lock(t) /\ UNCHANGED <<beVars, jsonVars, mergeVars, v4l2Vars>>
        \/ unlock(t) /\ UNCHANGED <<beVars, jsonVars, mergeVars, v4l2Vars>>
        \/ SetJsonConfigBegin(t) /\ UNCHANGED <<beVars, jsonVars, mergeVars, v4l2Vars>>
        \/ SetJsonConfigFirst(t) /\ UNCHANGED <<beVars, jsonVars, mergeVars, v4l2Vars>>
        \/ SetJsonConfigSecond(t) /\ UNCHANGED <<beVars, jsonVars, mergeVars, v4l2Vars>>
        \/ PrepareBegin(t) /\ UNCHANGED <<beVars, jsonVars, mergeVars, v4l2Vars>>
        \/ PrepareReadFirst(t) /\ UNCHANGED <<beVars, jsonVars, mergeVars, v4l2Vars>>
        \/ PrepareReadSecond(t) /\ UNCHANGED <<beVars, jsonVars, mergeVars, v4l2Vars>>
        \/ PrepareEnd(t) /\ UNCHANGED <<beVars, jsonVars, mergeVars, v4l2Vars>>

SpecLock == InitLocking /\ [][NextLocking]_vars

\* a dump of each configuration of JsonCases and a load of the document
InitJson ==
    /\ \E c \in JsonCases : InitJsonFor(c)
    /\ BackEndAtRest /\ InitLock /\ MergeAtRest /\ V4l2AtRest

NextJson ==
    \/ JsonDump /\ UNCHANGED <<beVars, lockVars, mergeVars, v4l2Vars>>
    \/ JsonLoad /\ UNCHANGED <<beVars, lockVars, mergeVars, v4l2Vars>>
    \/ JsonLoadKeyed /\ UNCHANGED <<beVars, lockVars, mergeVars, v4l2Vars>>

SpecJson == InitJson /\ [][NextJson]_vars

\* one MergeConfig of each update of MergeCases
InitMerge ==
    /\ \E u \in MergeCases : InitMergeFor(u)
    /\ BackEndAtRest /\ InitLock /\ JsonAtRest /\ V4l2AtRest

NextMerge == CallMergeConfig /\ UNCHANGED <<beVars, lockVars, jsonVars, v4l2Vars>>

SpecMerge == InitMerge /\ [][NextMerge]_vars

\* one SetFormat of each image of PlaneCases
InitPlanes ==
    /\ \E c \in PlaneCases, opaque \in BOOLEAN : InitV4l2For(c, opaque)
    /\ BackEndAtRest /\ InitLock /\ JsonAtRest /\ MergeAtRest

NextPlanes == SetFormat /\ UNCHANGED <<beVars, lockVars, jsonVars, mergeVars>>

SpecPlanes == InitPlanes /\ [][NextPlanes]_vars

\* ------------------------------------------------------------------------
\* Dirty bits across setter and Prepare calls
\* ------------------------------------------------------------------------
\* the dirty bits updateSmartResize raises through SetDownscale and SetResample
ResizeFlags == {"rgb"} \X ({DOWNSCALE(i) : i \in Branches} \cup {RESAMPLE(i) : i \in Branches})

\* C11 as stated: between calls a dirty bit is set if and only if the caller
\* has set its block since the last Prepare that ended well, so that after
\* every such Prepare all the dirty bits are clear
C11_DirtyIffSetSincePrepare ==
    pc = "idle" => DirtyFlags(Obj) = hist.caller

\* C11, amended: a Prepare that ends well clears the dirty bits only when it
\* is given a buffer; between calls every bit the caller's setters raised
\* since the last such Prepare is still set, and a bit that is set was
\* raised by the caller or, for a downscale or resample block, by the
\* smart resize of a Prepare
C11_DirtyUntilEmitted ==
    pc = "idle" =>
        /\ hist.pending \subseteq DirtyFlags(Obj)
        /\ DirtyFlags(Obj) \subseteq hist.pending \cup ResizeFlags
        /\ result = "ok" /\ config = "buffer" /\ hist.pending = {} => DirtyFlags(Obj) = {}

\* a second Prepare, given a buffer, has ended well and cleared the bits
\* that a setter call after the first one had raised
C11_Witness ==
    /\ pc = "idle" /\ result = "ok" /\ config = "buffer"
    /\ hist.prepares >= 2
    /\ hw.written
    /\ hist.changed
    /\ DirtyFlags(Obj) = {}

\* ------------------------------------------------------------------------
\* C12: the configuration record after a Prepare that failed
\* ------------------------------------------------------------------------
PrepareFailed == pc = "idle" /\ hist.prepares > 0 /\ result \notin {"", "ok", "SIGFPE"}

\* the record b became the record a by filling in fields that were zero,
\* and by nothing else
FilledIn(b, a) == \A k \in DOMAIN b : a[k] = b[k] \/ b[k] = 0

\* object a differs from object b only in fields that were unset in b and
\* in enable bits that were added
AutoFilledOnly(b, a) ==
    /\ b.be_config_.global.bayer_enables \subseteq a.be_config_.global.bayer_enables
    /\ b.be_config_.global.rgb_enables \subseteq a.be_config_.global.rgb_enables
    /\ FilledIn(b.be_config_.input_format, a.be_config_.input_format)
    /\ FilledIn(b.be_config_.lsc, a.be_config_.lsc)
    /\ FilledIn(b.be_config_extra_.lsc, a.be_config_extra_.lsc)
    /\ \A i \in Branches :
          /\ FilledIn(b.be_config_.output_format[i].image, a.be_config_.output_format[i].image)
          /\ a.be_config_.output_format[i].transform = b.be_config_.output_format[i].transform
          /\ FilledIn(b.be_config_.downscale[i], a.be_config_.downscale[i])
          /\ FilledIn(b.be_config_.resample[i], a.be_config_.resample[i])
          /\ FilledIn(b.be_config_extra_.downscale[i], a.be_config_extra_.downscale[i])
          /\ FilledIn(SizeOf(b.be_config_extra_.resample[i].scaled_width,
                             b.be_config_extra_.resample[i].scaled_height),
                      SizeOf(a.be_config_extra_.resample[i].scaled_width,
                             a.be_config_extra_.resample[i].scaled_height))
          /\ FilledIn(b.be_config_extra_.resample[i].initial_phase_h,
                      a.be_config_extra_.resample[i].initial_phase_h)
          /\ FilledIn(b.be_config_extra_.resample[i].initial_phase_v,
                      a.be_config_extra_.resample[i].initial_phase_v)
          /\ FilledIn(b.be_config_extra_.crop[i], a.be_config_extra_.crop[i])

\* C12 as stated: after a Prepare that failed, the configuration record is
\* the record the call began with, but for fields that were unset and have
\* been filled in
C12_RecordKeptOnFailure == PrepareFailed => AutoFilledOnly(hist.entry, Obj)

\* the branches that have a smart resize request
SmartResizeBranches(o) ==
    {i \in Branches : o.smart_resize_[i].width # 0 /\ o.smart_resize_[i].height # 0}

\* C12: after a Prepare that failed, the caller's requests (the size and
\* the format of the input, the crops, the transforms and pixel formats of
\* the outputs, the shading grid, the smart resize requests) are the ones
\* the call began with, and the enables and the scaler targets differ from
\* them only on the branches with a smart resize request, whose downscale
\* and resample enables and targets updateSmartResize has overwritten
C12_RequestsKeptOnFailure ==
    PrepareFailed =>
        LET b == hist.entry
            a == Obj
            S == SmartResizeBranches(b)
        IN /\ a.smart_resize_ = b.smart_resize_
           /\ a.be_config_extra_.crop = b.be_config_extra_.crop
           /\ a.be_config_extra_.lsc = b.be_config_extra_.lsc
           /\ FilledIn(b.be_config_.input_format, a.be_config_.input_format)
           /\ a.be_config_.global.bayer_enables = b.be_config_.global.bayer_enables
           /\ \A i \in Branches :
                 /\ a.be_config_.output_format[i].transform = b.be_config_.output_format[i].transform
                 /\ a.be_config_.output_format[i].image.format = b.be_config_.output_format[i].image.format
                 /\ i \notin S =>
                       /\ a.be_config_extra_.downscale[i] = b.be_config_extra_.downscale[i]
                       /\ a.be_config_extra_.resample[i] = b.be_config_extra_.resample[i]
                       /\ \A e \in {OUTPUT(i), DOWNSCALE(i), RESAMPLE(i)} :
                             e \in a.be_config_.global.rgb_enables
                                 <=> e \in b.be_config_.global.rgb_enables

\* a Prepare that failed after updateSmartResize had taken away a downscale
\* enable the caller had set
C12_Witness ==
    /\ PrepareFailed
    /\ \E i \in SmartResizeBranches(hist.entry) :
          /\ DOWNSCALE(i) \in hist.entry.be_config_.global.rgb_enables
          /\ DOWNSCALE(i) \notin be_config_.global.rgb_enables
          /\ hist.entry.be_config_extra_.downscale[i] # NoSize

\* ------------------------------------------------------------------------
\* C13: the enable bits a Prepare accepts
\* ------------------------------------------------------------------------
PrepareSucceeded == pc = "idle" /\ hist.prepares > 0 /\ result = "ok"

BayerInputEnabled(o) == "INPUT" \in o.be_config_.global.bayer_enables
RgbInputEnabled(o) == INPUT \in o.be_config_.global.rgb_enables
OutputsEnabled(o) ==
    ({OUTPUT(i) : i \in Branches} \cap o.be_config_.global.rgb_enables)
    \cup ({"TDN_OUTPUT", "STITCH_OUTPUT"} \cap o.be_config_.global.bayer_enables)

\* C13: a Prepare succeeds, and gets as far as tiling the image, only when
\* exactly one of the Bayer input and the RGB input was enabled and at
\* least one output (of a branch, of TDN or of stitch) was enabled
C13_OneInputSomeOutput ==
    PrepareSucceeded \/ pc # "idle" =>
        /\ BayerInputEnabled(hist.entry) # RgbInputEnabled(hist.entry)
        /\ OutputsEnabled(hist.entry) # {}

\* the three ways of breaking the rule have been prepared, and have failed
C13_WitnessNoInput ==
    PrepareFailed /\ ~BayerInputEnabled(hist.entry) /\ ~RgbInputEnabled(hist.entry)
    /\ OutputsEnabled(hist.entry) # {}
C13_WitnessBothInputs ==
    PrepareFailed /\ BayerInputEnabled(hist.entry) /\ RgbInputEnabled(hist.entry)
    /\ OutputsEnabled(hist.entry) # {}
C13_WitnessNoOutput ==
    PrepareFailed /\ BayerInputEnabled(hist.entry) /\ ~RgbInputEnabled(hist.entry)
    /\ OutputsEnabled(hist.entry) = {}
\* a Prepare with one input and one output has succeeded
C13_Witness ==
    PrepareSucceeded /\ BayerInputEnabled(hist.entry) /\ ~RgbInputEnabled(hist.entry)
    /\ OutputsEnabled(hist.entry) = {OUTPUT(0)}

\* ------------------------------------------------------------------------
\* C14: how updateSmartResize splits a reduction between the two scalers
\* ------------------------------------------------------------------------
\* this Prepare ran updateSmartResize on requests that were waiting
SmartResizeRan == hist.prepares > 0 /\ hist.entry.smart_resize_dirty_ # {} /\ smart_resize_dirty_ = {}

\* the size of the image that enters the scalers of branch i
ScalerInput(o, i) ==
    [width |-> IF o.be_config_extra_.crop[i].width # 0 THEN o.be_config_extra_.crop[i].width
               ELSE o.be_config_.input_format.width,
     height |-> IF o.be_config_extra_.crop[i].height # 0 THEN o.be_config_extra_.crop[i].height
                ELSE o.be_config_.input_format.height]

\* the requests of this Prepare that the downscaler takes part in
SplitBranches ==
    {i \in hist.entry.smart_resize_dirty_ \cap SmartResizeBranches(hist.entry) :
        /\ BackEndDownscalerAvailable(i)
        /\ \/ 2 * hist.entry.smart_resize_[i].width < ScalerInput(hist.entry, i).width
           \/ 2 * hist.entry.smart_resize_[i].height < ScalerInput(hist.entry, i).height}

\* the downscaler reduces size from to size to by two to eight times
TwoToEight(from, to) == 2 * to <= from /\ from <= 8 * to

\* C14: for a smart resize request on a branch with a downscaler, where an
\* axis asks for more than 2x reduction, the downscaler is enabled and its
\* output on every such axis is 2x to 8x smaller than its input (and is its
\* input on the other axis), and the resampler is enabled with the request
\* for its target and, when Prepare succeeds, with the scale factor from
\* the downscaler's output to the request
C14_SmartResizeSplit ==
    SmartResizeRan =>
        \A i \in SplitBranches :
            LET in == ScalerInput(hist.entry, i)
                req == hist.entry.smart_resize_[i]
                ds == be_config_extra_.downscale[i]
            IN /\ {DOWNSCALE(i), RESAMPLE(i)} \subseteq be_config_.global.rgb_enables
               /\ IF 2 * req.width < in.width THEN TwoToEight(in.width, ds.scaled_width)
                  ELSE ds.scaled_width = in.width
               /\ IF 2 * req.height < in.height THEN TwoToEight(in.height, ds.scaled_height)
                  ELSE ds.scaled_height = in.height
               /\ be_config_extra_.resample[i] = ResampleExtra(req.width, req.height, ZeroPhases, ZeroPhases)
               /\ PrepareSucceeded =>
                     /\ be_config_.resample[i].scale_factor_h
                            = ((ds.scaled_width - 1) * UnityScale) \div (req.width - 1)
                     /\ be_config_.resample[i].scale_factor_v
                            = ((ds.scaled_height - 1) * UnityScale) \div (req.height - 1)

\* a Prepare has succeeded with a request of more than sixteen times
\* reduction in width, which the downscaler has held to eight times
C14_Witness ==
    /\ SmartResizeRan /\ PrepareSucceeded
    /\ \E i \in SplitBranches :
          /\ 16 * hist.entry.smart_resize_[i].width < ScalerInput(hist.entry, i).width
          /\ 8 * be_config_extra_.downscale[i].scaled_width = ScalerInput(hist.entry, i).width

\* ------------------------------------------------------------------------
\* C15: the scale factors of the resampler
\* ------------------------------------------------------------------------
\* a Prepare has ended and has left the dirty flags as finaliseConfig saw them
FlagsLeft == pc = "idle" /\ hist.prepares > 0 /\ ~(result = "ok" /\ config = "buffer")

\* the size of the image that enters the resampler of branch j
ResamplerInput(j) ==
    IF DOWNSCALE(j) \in be_config_.global.rgb_enables
    THEN [width |-> be_config_extra_.downscale[j].scaled_width,
          height |-> be_config_extra_.downscale[j].scaled_height]
    ELSE ScalerInput(Obj, j)

ResampleInRange(f) == ~(f < UnityScale \div 16) /\ f < 16 * UnityScale

\* C15: when the resample block of a branch is dirty and enabled, a Prepare
\* that succeeds has stored, for each axis, the factor ((dim - 1) << 12) /
\* (scaled - 1), and it is within the limits; and when a factor is below
\* UnityScale / 16, or not below 16 * UnityScale, or has no value at all
\* for its divisor is zero, Prepare fails with an error
C15_ResampleFactors ==
    FlagsLeft =>
        \A j \in Branches :
            RESAMPLE(j) \in be_config_.global.rgb_enables \cap be_config_extra_.dirty_flags_rgb =>
                LET dim == ResamplerInput(j)
                    scaled == be_config_extra_.resample[j]
                IN IF scaled.scaled_width = 1 \/ scaled.scaled_height = 1
                   THEN PrepareFailed
                   ELSE LET fh == ((dim.width - 1) * UnityScale) \div (scaled.scaled_width - 1)
                            fv == ((dim.height - 1) * UnityScale) \div (scaled.scaled_height - 1)
                        IN IF ResampleInRange(fh) /\ ResampleInRange(fv)
                           THEN result = "ok" =>
                                    be_config_.resample[j] = [scale_factor_h |-> fh, scale_factor_v |-> fv]
                           ELSE PrepareFailed

\* the same for the branches whose output is enabled and whose targets are
\* of two pixels and more
C15_ResampleFactorsOfOutputs ==
    FlagsLeft =>
        \A j \in Branches :
            /\ RESAMPLE(j) \in be_config_.global.rgb_enables \cap be_config_extra_.dirty_flags_rgb
            /\ OUTPUT(j) \in be_config_.global.rgb_enables
            /\ be_config_extra_.resample[j].scaled_width # 1
            /\ be_config_extra_.resample[j].scaled_height # 1
            => LET dim == ResamplerInput(j)
                   scaled == be_config_extra_.resample[j]
                   fh == ((dim.width - 1) * UnityScale) \div (scaled.scaled_width - 1)
                   fv == ((dim.height - 1) * UnityScale) \div (scaled.scaled_height - 1)
               IN IF ResampleInRange(fh) /\ ResampleInRange(fv)
                  THEN result = "ok" =>
                           be_config_.resample[j] = [scale_factor_h |-> fh, scale_factor_v |-> fv]
                  ELSE PrepareFailed

\* a Prepare has succeeded with a factor just below 16 * UnityScale
C15_WitnessInRange ==
    /\ FlagsLeft /\ result = "ok"
    /\ \E j \in Branches :
          /\ RESAMPLE(j) \in be_config_.global.rgb_enables \cap be_config_extra_.dirty_flags_rgb
          /\ be_config_.resample[j].scale_factor_h > 15 * UnityScale

\* a Prepare has divided by zero and the process has been killed
C15_WitnessTrap ==
    /\ result = "SIGFPE"
    /\ \E j \in Branches :
          /\ {RESAMPLE(j), OUTPUT(j)} \subseteq be_config_.global.rgb_enables
          /\ RESAMPLE(j) \in be_config_extra_.dirty_flags_rgb
          /\ be_config_extra_.resample[j].scaled_width = 1

\* a Prepare has succeeded with a resample block dirty, enabled and out of
\* range, on a branch whose output is not enabled
C15_WitnessNoOutput ==
    /\ FlagsLeft /\ result = "ok"
    /\ \E j \in Branches :
          /\ RESAMPLE(j) \in be_config_.global.rgb_enables \cap be_config_extra_.dirty_flags_rgb
          /\ OUTPUT(j) \notin be_config_.global.rgb_enables
          /\ be_config_extra_.resample[j].scaled_width = 4

\* ------------------------------------------------------------------------
\* C16: the scale factors of the downscaler
\* ------------------------------------------------------------------------
DownscaleInRange(f) == f = UnityScale \/ (2 * UnityScale <= f /\ f <= 8 * UnityScale)

\* the factors finalise_downscale stores for an image of size dim and the
\* target scaled
DownscaleFactors(dim, scaled) ==
    [scale_factor_h |-> (dim.width * UnityScale) \div scaled.scaled_width,
     scale_factor_v |-> (dim.height * UnityScale) \div scaled.scaled_height,
     scale_recip_h |-> (scaled.scaled_width * UnityScale) \div dim.width,
     scale_recip_v |-> (scaled.scaled_height * UnityScale) \div dim.height]

\* C16: when the downscale block of a branch is dirty and enabled, a
\* Prepare that succeeds has stored the factor of each axis, in fixed point
\* with 12 bits of fraction, and its reciprocal, and each factor is unity
\* or within 2 to 8; and when a factor is neither, or has no value at all
\* for its divisor is zero, Prepare fails with an error
C16_DownscaleFactors ==
    FlagsLeft =>
        \A j \in Branches :
            DOWNSCALE(j) \in be_config_.global.rgb_enables \cap be_config_extra_.dirty_flags_rgb =>
                LET dim == ScalerInput(Obj, j)
                    scaled == be_config_extra_.downscale[j]
                IN IF scaled.scaled_width = 0 \/ scaled.scaled_height = 0
                   THEN PrepareFailed
                   ELSE IF DownscaleInRange(DownscaleFactors(dim, scaled).scale_factor_h)
                           /\ DownscaleInRange(DownscaleFactors(dim, scaled).scale_factor_v)
                   THEN result = "ok" => be_config_.downscale[j] = DownscaleFactors(dim, scaled)
                   ELSE PrepareFailed

\* the same for the branches whose output is enabled and whose targets are
\* not zero
C16_DownscaleFactorsOfOutputs ==
    FlagsLeft =>
        \A j \in Branches :
            /\ DOWNSCALE(j) \in be_config_.global.rgb_enables \cap be_config_extra_.dirty_flags_rgb
            /\ OUTPUT(j) \in be_config_.global.rgb_enables
            /\ be_config_extra_.downscale[j].scaled_width # 0
            /\ be_config_extra_.downscale[j].scaled_height # 0
            => LET dim == ScalerInput(Obj, j)
                   scaled == be_config_extra_.downscale[j]
               IN IF DownscaleInRange(DownscaleFactors(dim, scaled).scale_factor_h)
                     /\ DownscaleInRange(DownscaleFactors(dim, scaled).scale_factor_v)
                  THEN result = "ok" => be_config_.downscale[j] = DownscaleFactors(dim, scaled)
                  ELSE PrepareFailed

\* 4096x2160 downscaled to 1024x540: 4 * UnityScale and UnityScale / 4
C16_Example ==
    /\ hist.prepares > 0
    /\ be_config_.input_format.width = 4096 /\ be_config_.input_format.height = 2160
    /\ be_config_extra_.downscale[1] = SizeOf(1024, 540)
    => be_config_.downscale[1] = [scale_factor_h |-> 4 * UnityScale, scale_factor_v |-> 4 * UnityScale,
                                  scale_recip_h |-> UnityScale \div 4, scale_recip_v |-> UnityScale \div 4]

C16_WitnessExample ==
    /\ PrepareSucceeded
    /\ be_config_.input_format.width = 4096
    /\ be_config_.downscale[1].scale_factor_h = 4 * UnityScale

\* a Prepare has divided by zero and the process has been killed
C16_WitnessTrap ==
    /\ result = "SIGFPE"
    /\ \E j \in Branches :
          /\ {DOWNSCALE(j), OUTPUT(j)} \subseteq be_config_.global.rgb_enables
          /\ DOWNSCALE(j) \in be_config_extra_.dirty_flags_rgb
          /\ be_config_extra_.downscale[j].scaled_width = 0

\* a Prepare has succeeded with a downscale block dirty, enabled and out of
\* range, on a branch whose output is not enabled
C16_WitnessNoOutput ==
    /\ FlagsLeft /\ result = "ok"
    /\ \E j \in Branches :
          /\ DOWNSCALE(j) \in be_config_.global.rgb_enables \cap be_config_extra_.dirty_flags_rgb
          /\ OUTPUT(j) \notin be_config_.global.rgb_enables
          /\ be_config_extra_.downscale[j].scaled_width = 100

\* ------------------------------------------------------------------------
\* C17: the image formats a Prepare accepts
\* ------------------------------------------------------------------------
\* the images in use: the input, and the output of each enabled branch
EnabledImages ==
    {be_config_.input_format}
    \cup {be_config_.output_format[i].image : i \in {j \in Branches : OUTPUT(j) \in be_config_.global.rgb_enables}}

FormatRules(image) ==
    /\ PISP_IMAGE_FORMAT_COMPRESSED(image.format) => PISP_IMAGE_FORMAT_BPS_8(image.format)
    /\ PISP_IMAGE_FORMAT_SAMPLING_420(image.format) \/ PISP_IMAGE_FORMAT_SAMPLING_422(image.format)
           => image.width % 2 = 0
    /\ PISP_IMAGE_FORMAT_SAMPLING_420(image.format) => image.height % 2 = 0

\* C17: after a Prepare that succeeded, in the format of the input and of
\* every enabled output, compressed implies 8 bits per sample, 4:2:0 and
\* 4:2:2 sampling imply an even width and 4:2:0 sampling implies an even
\* height: a configuration that breaks a rule makes Prepare fail
C17_FormatRules == PrepareSucceeded => \A image \in EnabledImages : FormatRules(image)

\* the same for the image of the Bayer input and the sampling of the outputs
C17_BayerInputAndOutputSampling ==
    PrepareSucceeded =>
        /\ "INPUT" \in be_config_.global.bayer_enables => FormatRules(be_config_.input_format)
        /\ \A i \in Branches :
              OUTPUT(i) \in be_config_.global.rgb_enables =>
                  FormatRules([be_config_.output_format[i].image EXCEPT !.format.compressed = FALSE])

\* a Prepare has succeeded with a 4:2:0 image of odd height at the RGB input
C17_WitnessOddHeight ==
    /\ PrepareSucceeded
    /\ INPUT \in be_config_.global.rgb_enables
    /\ PISP_IMAGE_FORMAT_SAMPLING_420(be_config_.input_format.format)
    /\ be_config_.input_format.height % 2 = 1

\* and with one of odd width
C17_WitnessOddWidth ==
    /\ PrepareSucceeded
    /\ INPUT \in be_config_.global.rgb_enables
    /\ PISP_IMAGE_FORMAT_SAMPLING_420(be_config_.input_format.format)
    /\ be_config_.input_format.width % 2 = 1

\* and with a compressed output of 16 bits per sample
C17_WitnessCompressedOutput ==
    /\ PrepareSucceeded
    /\ \E i \in Branches :
          /\ OUTPUT(i) \in be_config_.global.rgb_enables
          /\ PISP_IMAGE_FORMAT_COMPRESSED(be_config_.output_format[i].image.format)
          /\ PISP_IMAGE_FORMAT_BPS_16(be_config_.output_format[i].image.format)

\* a 4:2:0 output of odd height has been refused
C17_WitnessRefused ==
    /\ PrepareFailed
    /\ PISP_IMAGE_FORMAT_SAMPLING_420(be_config_.output_format[0].image.format)
    /\ be_config_.output_format[0].image.height % 2 = 1

\* ------------------------------------------------------------------------
\* C18: the alignment of the strides
\* ------------------------------------------------------------------------
StrideAlign(image) == IF PISP_IMAGE_FORMAT_WALLPAPER(image.format) THEN 128 ELSE 16

StridesAligned(image) ==
    image.stride % StrideAlign(image) = 0 /\ image.stride2 % StrideAlign(image) = 0

\* C18: after a Prepare that succeeded, the stride and the stride2 of the
\* input and of every enabled output are multiples of 128 for a wallpaper
\* format and of 16 for any other, whether the caller supplied them or
\* Prepare filled them in
C18_StridesAligned == PrepareSucceeded => \A image \in EnabledImages : StridesAligned(image)

\* the same for the enabled outputs, and for the stride of a Bayer input
\* that is not in a wallpaper format
C18_OutputStridesAligned ==
    PrepareSucceeded =>
        /\ \A i \in Branches :
              OUTPUT(i) \in be_config_.global.rgb_enables => StridesAligned(be_config_.output_format[i].image)
        /\ "INPUT" \in be_config_.global.bayer_enables => be_config_.input_format.stride % 16 = 0

\* a Prepare has succeeded with an RGB input whose stride is not a
\* multiple of 16
C18_WitnessRgbInput ==
    /\ PrepareSucceeded
    /\ INPUT \in be_config_.global.rgb_enables
    /\ ~PISP_IMAGE_FORMAT_WALLPAPER(be_config_.input_format.format)
    /\ be_config_.input_format.stride % 16 # 0

\* a Prepare has succeeded with the strides of a wallpaper output filled in
C18_WitnessWallpaperFilled ==
    /\ PrepareSucceeded
    /\ hist.entry.be_config_.output_format[0].image.stride = 0
    /\ PISP_IMAGE_FORMAT_WALLPAPER(be_config_.output_format[0].image.format)
    /\ be_config_.output_format[0].image.stride = 64 * PISP_WALLPAPER_WIDTH

\* an output whose stride2 the caller had misaligned has been refused
C18_WitnessRefused ==
    /\ PrepareFailed
    /\ hist.entry.be_config_.output_format[0].image.stride = 448
    /\ hist.entry.be_config_.output_format[0].image.stride2 = 72

\* ------------------------------------------------------------------------
\* C19: the stride Prepare fills in
\* ------------------------------------------------------------------------
\* the outputs that were enabled, with a stride of zero, when a Prepare
\* that went past the check of the inputs began
ZeroStrideOutputs ==
    {i \in Branches :
        /\ hist.prepares > 0
        /\ BayerInputEnabled(hist.entry) # RgbInputEnabled(hist.entry)
        /\ OUTPUT(i) \in hist.entry.be_config_.global.rgb_enables
        /\ hist.entry.be_config_.output_format[i].image.stride = 0}

\* the bytes of a line of the image
BytesOfLine(image) ==
    compute_x_offset(image.format, IF PISP_IMAGE_FORMAT_COMPRESSED(image.format)
                                   THEN AlignUp(image.width, PISP_BACK_END_COMPRESSED_ALIGN)
                                   ELSE image.width)

\* C19 as stated: Prepare fills in a stride of zero of an enabled output
\* with the smallest multiple of 64 that covers a line of the image
C19_ZeroStrideFilledTo64 ==
    \A i \in ZeroStrideOutputs :
        LET image == be_config_.output_format[i].image
        IN ~PISP_IMAGE_FORMAT_WALLPAPER(image.format)
               => image.stride = AlignUp(BytesOfLine(image), PISP_BACK_END_OUTPUT_MAX_ALIGN)

\* C19: Prepare fills in a stride of zero of an enabled output with the
\* smallest multiple of 16 that covers a line of the image, and for a
\* wallpaper format with the bytes of a roll, 128 times the height; the
\* strides it fills in pass the alignment checks
C19_ZeroStrideFilledTo16 ==
    \A i \in ZeroStrideOutputs :
        LET image == be_config_.output_format[i].image
        IN /\ image.stride = IF PISP_IMAGE_FORMAT_WALLPAPER(image.format)
                             THEN image.height * PISP_WALLPAPER_WIDTH
                             ELSE AlignUp(BytesOfLine(image), PISP_BACK_END_OUTPUT_MIN_ALIGN)
           /\ image.stride % PISP_BACK_END_OUTPUT_MIN_ALIGN = 0
           /\ image.stride2 % PISP_BACK_END_OUTPUT_MIN_ALIGN = 0

\* a Prepare has succeeded and has filled in a stride of 416 for the 408
\* bytes of a line
C19_Witness ==
    /\ PrepareSucceeded
    /\ 0 \in ZeroStrideOutputs
    /\ BytesOfLine(be_config_.output_format[0].image) = 408
    /\ be_config_.output_format[0].image.stride = 416

\* ------------------------------------------------------------------------
\* C20: the size of a plane past 2^32, and what SetFormat does with it
\* ------------------------------------------------------------------------
SetFormatDone == v4l2.pc = "ioctl"

\* the lines (or, for wallpaper, rolls) and the stride of a plane
PlaneLines(c, p) ==
    IF PISP_IMAGE_FORMAT_WALLPAPER(c.format) THEN (c.width + PISP_WALLPAPER_WIDTH - 1) \div PISP_WALLPAPER_WIDTH
    ELSE IF p # 0 /\ PISP_IMAGE_FORMAT_SAMPLING_420(c.format) THEN c.height \div 2
    ELSE c.height
PlaneStride(c, p) == IF p # 0 THEN abs(c.stride2) ELSE abs(c.stride)

\* the least stride with which n lines take 2^32 bytes, by long division
StrideLimit(n) ==
    LET q_hi == Half \div n
        r == Half % n
        q_lo == (r * Half) \div n
        exact == (r * Half) % n = 0
    IN q_hi * Half + q_lo + (IF exact THEN 0 ELSE 1)
TakesU32(c, p) == PlaneLines(c, p) > 2 /\ PlaneStride(c, p) >= StrideLimit(PlaneLines(c, p))
OverflowedPlanes == {p \in DOMAIN v4l2.returned : TakesU32(v4l2.format, p)}

\* C20 (as stated): get_plane_size returns 0 for a plane of 2^32 bytes or
\* more, and SetFormat, its caller, then reports a failure and hands no
\* size made of that 0 to the ioctl.
C20_OverflowReported ==
    SetFormatDone /\ OverflowedPlanes # {} =>
        /\ \A p \in OverflowedPlanes : v4l2.returned[p] = WideZero
        /\ v4l2.result # "ok"
        /\ ~v4l2.handed

\* C20 (the part about get_plane_size alone): it returns 0 for a plane of
\* 2^32 bytes or more, and otherwise a size below 2^32 that is 0 only for
\* a plane of no lines or of stride 0.
C20_ZeroOnOverflow ==
    SetFormatDone =>
        \A p \in DOMAIN v4l2.returned :
            /\ TakesU32(v4l2.format, p) => v4l2.returned[p] = WideZero
            /\ ~TakesU32(v4l2.format, p) =>
                  /\ v4l2.returned[p].hi < Half
                  /\ v4l2.returned[p] = WideZero <=>
                        PlaneLines(v4l2.format, p) = 0 \/ PlaneStride(v4l2.format, p) = 0

\* 2^15 lines of 2^17 bytes are 2^32 bytes and give 0; of 2^17 - 16 bytes
\* they give 2^32 - 2^19 = 65528 * 2^16
C20_Example ==
    SetFormatDone /\ v4l2.format.height = 32768 /\ ~PISP_IMAGE_FORMAT_WALLPAPER(v4l2.format.format) =>
        /\ v4l2.format.stride = 131072 => v4l2.returned[0] = WideZero
        /\ v4l2.format.stride = 131056 => v4l2.returned[0] = Wide(65528, 0)

\* SetFormat was given a plane of 2^32 bytes, the ioctl accepted the format
\* and the sizeimage it got counts that plane as 0 bytes
C20_WitnessAccepted ==
    /\ SetFormatDone /\ v4l2.result = "ok" /\ v4l2.handed
    /\ 0 \in OverflowedPlanes /\ v4l2.returned[0] = WideZero
    /\ v4l2.sizeimage[0] = WideZero

\* 65535 lines of 65552 bytes are past 2^32 bytes
C20_WitnessTallest ==
    /\ SetFormatDone /\ v4l2.format.height = 65535 /\ v4l2.format.stride = 65552
    /\ 0 \in OverflowedPlanes

\* a plane of 2^31 bytes or more, below 2^32, whose size is returned whole
C20_WitnessJustBelow ==
    /\ SetFormatDone /\ 0 \notin OverflowedPlanes /\ v4l2.returned[0].hi >= Half \div 2

\* ------------------------------------------------------------------------
\* C21: the TDN input and tdn.reset
\* ------------------------------------------------------------------------
\* the enables and the TDN block the Prepare that has ended was called on
TdnBits == {"TDN", "TDN_INPUT", "TDN_DECOMPRESS", "TDN_COMPRESS", "TDN_OUTPUT"}
EntryBayer == hist.entry.be_config_.global.bayer_enables
TdnDirtyAtEntry == hist.entry.be_config_extra_.dirty_flags_bayer \cap TdnBits # {}
PastFinalise == hist.prepares > 0 /\ (pc # "idle" \/ result = "ok")
PrepareEnded == hist.prepares > 0 /\ pc = "idle"

\* what finalise_tdn asks of the TDN output whatever the input and reset are
TdnOutputInOrder ==
    LET f == hist.entry.be_config_.tdn_output_format
        in == hist.entry.be_config_.input_format
    IN /\ "TDN_OUTPUT" \in EntryBayer
       /\ PISP_IMAGE_FORMAT_COMPRESSED(f.format) <=> "TDN_COMPRESS" \in EntryBayer
       /\ "TDN_COMPRESS" \in EntryBayer => PISP_IMAGE_FORMAT_BPS_8(f.format)
       /\ f.width = 0 \/ f.height = 0 \/ (f.width = in.width /\ f.height = in.height)
       /\ f.stride % 16 = 0 /\ f.stride2 % 16 = 0

\* C21 (as stated): with TDN enabled a Prepare gets past its validation only
\* if the TDN input is enabled or tdn.reset is set; and with tdn.reset set,
\* the TDN input disabled and the TDN output in order, the Prepare succeeds.
C21_TdnInputOrReset ==
    /\ PastFinalise /\ "TDN" \in EntryBayer =>
          "TDN_INPUT" \in EntryBayer \/ hist.entry.be_config_.tdn.reset
    /\ PrepareEnded /\ "TDN" \in EntryBayer /\ hist.entry.be_config_.tdn.reset
          /\ "TDN_INPUT" \notin EntryBayer /\ TdnOutputInOrder => result = "ok"

\* C21 (for a Prepare that finds a TDN block dirty): with TDN enabled the
\* Prepare gets past its validation only if exactly one of the two holds,
\* the TDN input is enabled or tdn.reset is set.
C21_TdnInputOrResetWhenDirty ==
    PastFinalise /\ "TDN" \in EntryBayer /\ TdnDirtyAtEntry =>
        ("TDN_INPUT" \in EntryBayer) # hist.entry.be_config_.tdn.reset

\* with tdn.reset set, the TDN input disabled and the TDN output in order,
\* the Prepare succeeds
C21_ResetSucceeds ==
    PrepareEnded /\ "TDN" \in EntryBayer /\ hist.entry.be_config_.tdn.reset
        /\ "TDN_INPUT" \notin EntryBayer /\ TdnOutputInOrder => result = "ok"

\* a Prepare has succeeded with TDN enabled, its input disabled and
\* tdn.reset clear: no TDN block was dirty
C21_WitnessAccepted ==
    /\ PrepareEnded /\ result = "ok" /\ "TDN" \in EntryBayer
    /\ "TDN_INPUT" \notin EntryBayer /\ ~hist.entry.be_config_.tdn.reset

\* the same configuration with the TDN block dirty is refused
C21_WitnessRefused ==
    /\ PrepareEnded /\ result = "runtime_error" /\ {"TDN", "TDN_OUTPUT"} \subseteq EntryBayer
    /\ "TDN_INPUT" \notin EntryBayer /\ ~hist.entry.be_config_.tdn.reset /\ TdnDirtyAtEntry
    /\ TdnOutputInOrder

\* a Prepare has succeeded with tdn.reset set and the TDN input disabled
C21_WitnessReset ==
    /\ PrepareEnded /\ result = "ok" /\ "TDN" \in EntryBayer /\ TdnDirtyAtEntry
    /\ "TDN_INPUT" \notin EntryBayer /\ hist.entry.be_config_.tdn.reset

\* ------------------------------------------------------------------------
\* C22: the address offsets of the TDN and stitch images
\* ------------------------------------------------------------------------
\* a Prepare has succeeded and has written the caller's buffer
Emitted == hist.prepares > 0 /\ pc = "idle" /\ result = "ok" /\ hw.written
EmittedTiles == {hw.tiles[k] : k \in 1 .. hw.num_tiles}

\* C22 (as stated): in every emitted tile the address offset of the TDN
\* input, the TDN output, the stitch input and the stitch output is left at
\* 0 unless the image's enable bit is set.
C22_AuxOffsetsOnlyWhenEnabled ==
    Emitted =>
        \A t \in EmittedTiles :
            /\ "TDN_INPUT" \notin hw.config.global.bayer_enables => t.tdn_input_addr_offset = 0
            /\ "TDN_OUTPUT" \notin hw.config.global.bayer_enables => t.tdn_output_addr_offset = 0
            /\ "STITCH_INPUT" \notin hw.config.global.bayer_enables => t.stitch_input_addr_offset = 0
            /\ "STITCH_OUTPUT" \notin hw.config.global.bayer_enables => t.stitch_output_addr_offset = 0

\* C22 (what finaliseTiling does): the four offsets of every emitted tile
\* are those of the tile's input offset in the image the record holds,
\* whether the image is enabled or not.
C22_AuxOffsetsAlways ==
    Emitted =>
        \A t \in EmittedTiles :
            /\ t.tdn_input_addr_offset
                  = t.input_offset_y * hw.config.tdn_input_format.stride
                    + compute_x_offset(hw.config.tdn_input_format.format, t.input_offset_x)
            /\ t.tdn_output_addr_offset
                  = t.input_offset_y * hw.config.tdn_output_format.stride
                    + compute_x_offset(hw.config.tdn_output_format.format, t.input_offset_x)
            /\ t.stitch_input_addr_offset
                  = t.input_offset_y * hw.config.stitch_input_format.stride
                    + compute_x_offset(hw.config.stitch_input_format.format, t.input_offset_x)
            /\ t.stitch_output_addr_offset
                  = t.input_offset_y * hw.config.stitch_output_format.stride
                    + compute_x_offset(hw.config.stitch_output_format.format, t.input_offset_x)

\* TDN is enabled and being reset, its input is disabled and its input
\* image was never set: a tile to the right of the first has an offset
C22_WitnessReset ==
    /\ Emitted /\ "TDN" \in hw.config.global.bayer_enables /\ hw.config.tdn.reset
    /\ "TDN_INPUT" \notin hw.config.global.bayer_enables
    /\ hw.config.tdn_input_format = Constructed.be_config_.tdn_input_format
    /\ \E t \in EmittedTiles : t.input_offset_x > 0 /\ t.tdn_input_addr_offset = t.input_offset_x

\* no TDN or stitch bit is enabled and no TDN or stitch image was ever set
C22_WitnessNeverSet ==
    /\ Emitted /\ hw.config.global.bayer_enables = {"INPUT"}
    /\ hw.config.tdn_input_format = Constructed.be_config_.tdn_input_format
    /\ \E t \in EmittedTiles : t.tdn_input_addr_offset > 0 /\ t.stitch_output_addr_offset > 0

\* the TDN input is disabled and the caller has set its image
C22_WitnessImageSet ==
    /\ Emitted /\ "TDN_INPUT" \notin hw.config.global.bayer_enables
    /\ hw.config.tdn_input_format.stride = 256
    /\ \E t \in EmittedTiles : t.input_offset_x > 0 /\ t.tdn_input_addr_offset = 2 * t.input_offset_x

\* ------------------------------------------------------------------------
\* C23: a branch with nothing to do in a tile
\* ------------------------------------------------------------------------
\* the tile array in plan_ was made from the planner's tiles in x_tiles and
\* y_tiles by the Prepare that is in progress or has just ended
Planned == hist.retiled /\ Len(plan_) = Len(x_tiles) * Len(y_tiles)
PlannedX(k) == x_tiles[((k - 1) % Len(x_tiles)) + 1]
PlannedY(k) == y_tiles[((k - 1) \div Len(x_tiles)) + 1]

\* the sub-tiles of branch j: what it reads, and what its crop, its
\* downscaler and its resampler deliver
SubTiles(r, j) ==
    {r[<<"crop", j>>].input, r[<<"crop", j>>].output}
    \cup (IF DOWNSCALE(j) \in be_config_.global.rgb_enables THEN {r[<<"downscale", j>>].output} ELSE {})
    \cup (IF RESAMPLE(j) \in be_config_.global.rgb_enables THEN {r[<<"resample", j>>].output} ELSE {})
ZeroArea(k, j) ==
    \E v \in SubTiles(PlannedX(k), j) \cup SubTiles(PlannedY(k), j) : v.length = 0

\* the branch is switched off in tile t: its crop eats the tile and it
\* writes nothing
EatsEverything(t, j) ==
    /\ t.crop_x_start[j] = t.input_width /\ t.crop_x_end[j] = 0
    /\ t.crop_y_start[j] = t.input_height /\ t.crop_y_end[j] = 0
    /\ t.output_width[j] = 0 /\ t.output_height[j] = 0
    /\ t.resample_in_width[j] = 0 /\ t.resample_in_height[j] = 0

\* the emitted tile t writes no pixel of the image of branch j
WritesNothing(t, j) ==
    OutputX(t, j)[1] = OutputX(t, j)[2] /\ OutputY(t, j)[1] = OutputY(t, j)[2]

C23_WitnessResample ==
    /\ Planned /\ Emitted
    /\ \E k \in 1 .. hw.num_tiles, j \in EnabledOutputs :
          /\ RESAMPLE(j) \in be_config_.global.rgb_enables
          /\ PlannedX(k)[<<"resample", j>>].output.length = 0
          /\ hw.tiles[k].input_width > 0

C23_WitnessRows ==
    /\ Planned /\ Emitted
    /\ \E k \in 1 .. hw.num_tiles, j \in EnabledOutputs :
          /\ PlannedY(k)[<<"crop", j>>].output.length = 0
          /\ PlannedX(k)[<<"crop", j>>].output.length > 0

\* ------------------------------------------------------------------------
\* C24: tile widths of a compressed input
\* ------------------------------------------------------------------------
CompressedBayer8 ==
    /\ "INPUT" \in be_config_.global.bayer_enables
    /\ PISP_IMAGE_FORMAT_COMPRESSED(be_config_.input_format.format)
    /\ PISP_IMAGE_FORMAT_BPS_8(be_config_.input_format.format)

\* the tiles that are not the rightmost of their row
InnerTiles == {k \in 1 .. hw.num_tiles : k % num_tiles_x_ # 0}

\* C24: with a compressed Bayer input of 8 bits a pixel, the input width of
\* every emitted tile is a multiple of 8, except for the rightmost tile of
\* each row.
C24_CompressedTileWidths ==
    Emitted /\ CompressedBayer8 =>
        \A k \in InnerTiles : hw.tiles[k].input_width % PISP_BACK_END_COMPRESSED_ALIGN = 0

\* several tiles a row have been emitted for a compressed input whose width
\* is no multiple of 8; the rightmost tile's width is no multiple of 8
C24_Witness ==
    /\ Emitted /\ CompressedBayer8
    /\ num_tiles_x_ >= 3
    /\ be_config_.input_format.width % PISP_BACK_END_COMPRESSED_ALIGN # 0
    /\ hw.tiles[num_tiles_x_].input_width % PISP_BACK_END_COMPRESSED_ALIGN # 0

\* the same for an output behind a crop that does not start at a multiple
\* of 8
C24_WitnessCrop ==
    /\ Emitted /\ CompressedBayer8
    /\ num_tiles_x_ >= 2
    /\ \E j \in EnabledOutputs : be_config_extra_.crop[j].offset_x % PISP_BACK_END_COMPRESSED_ALIGN # 0

\* ------------------------------------------------------------------------
\* C25: SetJsonConfig clears the dirty flags and asks for a retile
\* ------------------------------------------------------------------------
\* C25: a SetJsonConfig that loads a configuration leaves all dirty flags
\* clear, and the Prepare that succeeds next recomputes the tile array,
\* whether or not a geometry field differs from before the load.
C25_LoadClearsAndRetiles ==
    [][/\ CallSetJsonConfig => DirtyFlags(Obj)' = {} /\ retile_'
       /\ (Prepared /\ hist.wasloaded)' => hist'.retiled]_vars

\* a Prepare has succeeded and recomputed the tiles after a SetJsonConfig
\* that changed no geometry field and followed an earlier Prepare
C25_Witness ==
    /\ Prepared /\ hist.wasloaded /\ hist.retiled /\ ~hist.differed
    /\ hist.prepares >= 2
    /\ hw.written

\* the same after a load that changed the geometry: the tiles differ
C25_WitnessChanged ==
    /\ Prepared /\ hist.wasloaded /\ hist.retiled /\ hist.differed
    /\ hist.prepares >= 2
    /\ Geometries(tiles_) # hist.before

\* a load has cleared dirty flags that a setter had raised
C25_WitnessCleared ==
    /\ pc = "idle" /\ hist.loaded /\ DirtyFlags(Obj) = {}
    /\ be_config_extra_.crop # Constructed.be_config_extra_.crop
    /\ retile_

\* ------------------------------------------------------------------------
\* C26: the end the split settles on
\* ------------------------------------------------------------------------
\* the split's last PushEndDown went through both loops
SplitCalled == stages.split.told # <<>>
Reported == {stages.split.reported[n] : n \in 1 .. Len(stages.split.reported)}
Told == {stages.split.told[n] : n \in 1 .. Len(stages.split.told)}

C26_WitnessNoProgress ==
    /\ SplitCalled
    /\ 0 \in Reported
    /\ stages.split.given > 0
    /\ Len(x_tiles) > 0

\* ------------------------------------------------------------------------
\* C27: the ends an output stage takes
\* ------------------------------------------------------------------------
OutputCalls == {stages.ends[n] : n \in 1 .. Len(stages.ends)}
ImageSize(e) == tiling_config.output_image_size[e.branch][e.dir]
Mirrored(e) == e.dir = "x" /\ tiling_config.output_h_mirror[e.branch]
MaxAligned(e) ==
    align_end(e.offered, ImageSize(e), tiling_config.output_max_alignment[e.branch][e.dir], Mirrored(e))
MinAligned(e) ==
    align_end(e.offered, ImageSize(e), tiling_config.output_min_alignment[e.branch][e.dir], Mirrored(e))

\* the end is a multiple of the alignment a, counted from the far edge of
\* the image when the output is mirrored, or it is the edge of the image
AlignedTo(e, a) ==
    \/ e.taken = ImageSize(e)
    \/ IF Mirrored(e) THEN (ImageSize(e) - e.taken) % a = 0 ELSE e.taken % a = 0

\* the call made progress: the tile ends beyond its start
Advances(e) == e.taken > e.start

C27_WitnessMirrored ==
    \E e \in OutputCalls :
        /\ Advances(e) /\ Mirrored(e)
        /\ e.taken % tiling_config.output_min_alignment[e.branch][e.dir] # 0
        /\ e.taken < ImageSize(e)

C27_WitnessNoProgress ==
    \E e \in OutputCalls : ~Advances(e) /\ e.offered > e.start

\* ------------------------------------------------------------------------
\* C28: Prepare after a Prepare that failed while tiling
\* ------------------------------------------------------------------------
\* a Prepare has just ended that followed, with no setter call in between,
\* a Prepare that threw while it was tiling
AfterAborted == pc = "idle" /\ hist.prepares >= 2 /\ hist.wasaborted

\* C28: when a Prepare has failed while retiling, the Prepare that follows on
\* the unchanged configuration retiles again: it does not succeed without
\* having recomputed the tile array.
C28_RetileNotLost ==
    AfterAborted /\ result = "ok" => hist.retiled

\* what the code does: after a Prepare that threw while tiling, no retile is
\* pending; the next Prepare on the unchanged configuration tiles again only
\* when its own smart-resize step asks for it, and otherwise, having passed
\* the checks as the first did, succeeds with the tile array and the tile
\* counts as the aborted tiling left them
C28_RetileLost ==
    /\ pc = "idle" /\ hist.aborted => ~retile_
    /\ AfterAborted /\ ~NeedsRetile(PrepareConfig(hist.entry)) =>
          /\ result = "ok" /\ ~hist.retiled
          /\ Geometries(tiles_) = hist.before
          /\ config = "buffer" => hw.written /\ hw.num_tiles = num_tiles_x_ * num_tiles_y_

\* the second Prepare, of a configuration with an output enabled, has
\* succeeded and handed the caller no tile at all
C28_WitnessNoTiles ==
    /\ AfterAborted /\ result = "ok" /\ ~hist.retiled
    /\ hw.written /\ hw.num_tiles = 0
    /\ be_config_extra_.crop[0].width = 180 /\ EnabledOutputs = {0}

\* ------------------------------------------------------------------------
\* C29: a crop stage whose output is too short
\* ------------------------------------------------------------------------
CropCalls == {stages.crops[n] : n \in 1 .. Len(stages.crops)}

\* the call arrived at an output interval shorter than the minimum tile size
TooShort(e) == e.output.length < tiling_config.min_tile_size[e.dir]

\* the tile that the sweep these calls belong to has copied out, if it has
CopiedOut(e) ==
    /\ stages.err = ""
    /\ IF e.dir = "x" THEN x_tiles # <<>> ELSE y_tiles # <<>>
LastTile(e) == IF e.dir = "x" THEN x_tiles[Len(x_tiles)] ELSE y_tiles[Len(y_tiles)]
CopiedInactive(e) ==
    /\ CopiedOut(e)
    /\ \A id \in BranchStages(tiling_config, e.branch) : LastTile(e)[id] = ZeroRegion

\* C29: CropStage::PushEndDown clamps the output end to the crop length and,
\* whenever the output interval it arrives at is shorter than the minimum
\* tile size, returns 0 without calling downstream; the branch is then
\* inactive in that tile and copied out with zero-length intervals.
C29_ShortMeansInactive ==
    \A e \in CropCalls :
        /\ End(e.output) <= tiling_config.crop[e.branch][e.dir].length
        /\ TooShort(e) => e.ret = 0 /\ ~e.passed /\ CopiedInactive(e)

\* what the code does: the call returns 0 without calling downstream and
\* resets the stage; the branch is copied out inactive when the split's
\* second call of the stage, which then starts from 0, is too short again
C29_ShortTwiceMeansInactive ==
    \A e \in CropCalls :
        /\ End(e.output) <= tiling_config.crop[e.branch][e.dir].length
        /\ TooShort(e) => e.ret = 0 /\ ~e.passed
        /\ (\A f \in CropCalls : f.branch = e.branch => ~f.passed) /\ stages.split.told # <<>>
              /\ stages.err = "" => CopiedInactive(e)

\* a branch that has not started yet was too short in both calls and is
\* copied out inactive while the other branch produces output
C29_Witness ==
    \E e \in CropCalls :
        /\ TooShort(e) /\ CopiedInactive(e)
        /\ \E f \in CropCalls : f.branch # e.branch /\ f.passed
        /\ Len(x_tiles) >= 2

\* a branch that has delivered its last column returned 0 in the first
\* call, went downstream in the second, and the sweep ended in a failure
C29_WitnessRevived ==
    \E e, f \in CropCalls :
        /\ e.branch = f.branch /\ e.dir = f.dir
        /\ TooShort(e) /\ e.ret = 0 /\ f.passed
        /\ stages.err # ""
        /\ pc = "idle" /\ result = stages.err

\* ------------------------------------------------------------------------
\* C30: the resample phases of the tiles Prepare emits
\* ------------------------------------------------------------------------
PhaseInRange(phase) == 0 <= phase /\ phase < 2 * UnityPhase

\* the resample phases of tile t, of the planes of branch j
ResamplePhases(t, j) ==
    {t.resample_phase_x[n] : n \in {m \in PhaseIndex : BranchOf(m) = j}}
        \cup {t.resample_phase_y[n] : n \in {m \in PhaseIndex : BranchOf(m) = j}}

\* the tiles a Prepare that succeeded leaves in the object, and the tiles
\* it wrote to the caller's buffer
TilesOut ==
    (IF PrepareSucceeded THEN {tiles_[k] : k \in 1 .. num_tiles_x_ * num_tiles_y_} ELSE {})
        \cup (IF hw.written THEN {hw.tiles[k] : k \in 1 .. hw.num_tiles} ELSE {})

\* C30: Prepare never emits a tile with a resample phase outside
\* [0, 2 * UnityPhase): in every tile, for every branch whose resample block
\* is enabled and every plane, the x and the y phase, which is the phase of
\* the tile's output offset plus the caller's initial phase, is in range.
C30_ResamplePhasesInRange ==
    \A t \in TilesOut :
        \A j \in Branches :
            RESAMPLE(j) \in be_config_.global.rgb_enables =>
                \A phase \in ResamplePhases(t, j) : PhaseInRange(phase)

\* a Prepare with initial phases that are not zero emitted tiles whose
\* phases differ from tile to tile
C30_Witness ==
    /\ PrepareSucceeded /\ hw.written /\ hw.num_tiles >= 2
    /\ RESAMPLE(0) \in be_config_.global.rgb_enables
    /\ be_config_extra_.resample[0].initial_phase_h = <<0, 64, 128>>
    /\ \E k \in 1 .. hw.num_tiles :
          /\ hw.tiles[k].resample_phase_x[0] # hw.tiles[1].resample_phase_x[0]
          /\ hw.tiles[k].resample_phase_x[0] + 64 = hw.tiles[k].resample_phase_x[PISP_BACK_END_NUM_OUTPUTS]

\* a negative initial phase wraps in the uint16_t, the range check fails
\* and no tile is emitted
C30_WitnessNegative ==
    /\ pc = "idle" /\ result = "assert" /\ ~hw.written
    /\ x_tiles # <<>> /\ y_tiles # <<>>
    /\ be_config_extra_.resample[0].initial_phase_h = <<-1, -1, -1>>
    /\ ConvertTile(Obj, x_tiles[1], y_tiles[1], 0, Len(x_tiles), Len(y_tiles)).resample_phase_x[0] = U16 - 1

\* an initial phase that takes a later tile's phase past the range
C30_WitnessTooLarge ==
    /\ pc = "idle" /\ result = "assert" /\ ~hw.written
    /\ x_tiles # <<>> /\ y_tiles # <<>>
    /\ be_config_extra_.resample[0].initial_phase_h = <<4352, 4352, 4352>>
    /\ PhaseAssert(ConvertTile(Obj, x_tiles[1], y_tiles[1], 0, Len(x_tiles), Len(y_tiles)).resample_phase_x[0])

\* planes whose phases are too far apart end Prepare with an exception
C30_WitnessApart ==
    /\ pc = "idle" /\ result = "runtime_error" /\ ~hw.written
    /\ x_tiles # <<>> /\ y_tiles # <<>>
    /\ be_config_extra_.resample[0].initial_phase_h = <<0, 3000, 0>>
====
